---- MODULE Spec2Model ----
(***************************************************************************)
(* A model of the provisioning engine of pkcs15-init                       *)
(* (src/src/tools/pkcs15-init.c): the authentication engine                *)
(* (sc_pkcs15init_authenticate, do_verify_pin), the file system navigator  *)
(* (do_select_parent, sc_pkcs15init_create_file,                           *)
(* sc_pkcs15init_update_file) and the key object manager                   *)
(* (sc_pkcs15init_setup_key, sc_pkcs15init_new_private_key,                *)
(* sc_pkcs15init_new_public_key).                                          *)
(*                                                                         *)
(* Every engine function is an operator over an engine state `st` (the     *)
(* profile, the card, the in-memory PKCS#15 directories, the log of the    *)
(* card operations the call issued and the function's return value r) and  *)
(* an environment `env` (what the outside answers during the call: the     *)
(* secret typed at a prompt, the card operation that fails with an I/O     *)
(* error).  An action runs one whole engine call.                          *)
(***************************************************************************)
EXTENDS Integers, Sequences, FiniteSets, TLC

VARIABLES pins,     \* profile->pin_list: sequence of PIN policies
          keys,     \* profile auth_info list: keys bound to (method, reference)
          tmpl,     \* paths for which the profile declares a file
          fsize,    \* declared size (file->size) of each file descriptor
          acl,      \* ACL chain per path and operation
          card,     \* the card: files, sizes, contents, selected file
          df,       \* p15card: registered key objects per directory file
          tpl,      \* profile key templates (prkey_list, pubkey_list heads)
          dffile,   \* p15card: the files that back each directory file (df->file[])
          prodf,    \* profile->df[]: the file the profile declares per directory file
          ops,      \* the card driver's operations that are bound (not NULL)
          call,     \* the engine call the last action made, with its inputs
          log,      \* card operations and prompts issued by the last call
          ret       \* return value of the last call

vars == <<pins, keys, tmpl, fsize, acl, card, df, tpl, dffile, prodf, ops, call, log, ret>>

(***************************************************************************)
(* Bounds of the model.                                                    *)
(***************************************************************************)
MaxAclLen == 3      \* longest ACL chain drawn as input of authenticate
MaxPayload == 3     \* longest payload written by updateFile
MaxFault == 4       \* the injected I/O error hits one of the first MaxFault card operations
MaxKeys == 3        \* objects registered per PKCS#15 type

(***************************************************************************)
(* Error codes (negative, as every sc_* function returns them) and ACL     *)
(* methods.                                                                *)
(***************************************************************************)
SC_ERROR_CARD_CMD_FAILED == -1200
SC_ERROR_FILE_NOT_FOUND == -1201
SC_ERROR_WRONG_LENGTH == -1206
SC_ERROR_SECURITY_STATUS_NOT_SATISFIED == -1211
SC_ERROR_PIN_CODE_INCORRECT == -1214
SC_ERROR_FILE_ALREADY_EXISTS == -1215
SC_ERROR_INVALID_ARGUMENTS == -1300
SC_ERROR_OBJECT_NOT_FOUND == -1407
SC_ERROR_NOT_SUPPORTED == -1408

SC_AC_NONE == "NONE"
SC_AC_CHV == "CHV"
SC_AC_PRO == "PRO"
SC_AC_AUT == "AUT"
SC_AC_NEVER == "NEVER"

AnyRef == -1        \* the reference sc_profile_find_key is asked for in its second phase
NoSecret == 0       \* info->secret[n] == NULL
GoodSecret == 1     \* the secret the card accepts
BadSecret == 2      \* a secret of valid length the card rejects
Secrets == {GoodSecret, BadSecret}

Entry(m, k) == [method |-> m, key_ref |-> k]

(***************************************************************************)
(* The log of a call.                                                      *)
(***************************************************************************)
Ev(op, tgt, arg, r) == [op |-> op, tgt |-> tgt, arg |-> arg, r |-> r]

Logged(st, e) == [st EXCEPT !.log = Append(@, e)]

\* Sequencing: the state a step returned is evaluated once, then handed to
\* the step that follows it.
Then(st, Step(_)) == CHOOSE s \in {Step(x) : x \in {st}} : TRUE

\* The k-th card operation of a call fails with an I/O error when the
\* environment says so.
Faulty(st, env) == env.faultAt = st.n + 1

(***************************************************************************)
(* The card (libopensc side of sc_verify).                                 *)
(***************************************************************************)
sc_verify(st, env, type, ref, secret) ==
    LET r == IF Faulty(st, env) THEN SC_ERROR_CARD_CMD_FAILED
             ELSE IF secret = GoodSecret THEN 0
             ELSE SC_ERROR_PIN_CODE_INCORRECT
    IN  [Logged(st, Ev("verify", <<type, ref>>, secret, r))
            EXCEPT !.n = @ + 1, !.r = r]

(***************************************************************************)
(* Profile lookups.                                                        *)
(***************************************************************************)
\* The keys of the profile bound to (type, ref); ref = AnyRef asks for the
\* key bound to "any reference".
sc_profile_find_key(st, type, ref) ==
    {k \in st.keys : k.type = type /\ k.ref = ref}

\* for (info = pro->pin_list; info; info = info->next)
\*     if (info->pkcs15.reference == reference) break;
PinIndex(st, ref) ==
    LET hits == {i \in 1..Len(st.pins) : st.pins[i].reference = ref}
    IN  IF hits = {} THEN 0 ELSE CHOOSE i \in hits : \A j \in hits : i <= j

\* read_one_pin(info, n): prompts until a secret of valid length is typed,
\* then stores it in info->secret[n].  env.typed is the secret accepted.
read_one_pin(st, env, i, n) ==
    IF st.pins[i].secret[n] # NoSecret THEN [st EXCEPT !.r = 0]
    ELSE [Logged(st, Ev("prompt", <<st.pins[i].ident, n>>, env.typed, 0))
            EXCEPT !.pins[i].secret[n] = env.typed, !.r = 0]

(***************************************************************************)
(* do_verify_pin                                                           *)
(***************************************************************************)
\* Mutant: the key bound to "any reference" is looked up before the key
\* bound to the exact reference.
do_verify_pin_WildcardFirst(st, env, type, reference) ==
    LET s0 == Logged(st, Ev("check", <<type, reference>>, 0, 0))
        exact == sc_profile_find_key(s0, type, reference)
        wild == sc_profile_find_key(s0, type, AnyRef)
        found == IF wild # {} THEN wild ELSE exact
        i == PinIndex(s0, reference)
    IN  IF found # {}
        THEN sc_verify(s0, env, type, reference, (CHOOSE k \in found : TRUE).key)
        ELSE IF type # SC_AC_CHV THEN [s0 EXCEPT !.r = 0]
        ELSE IF i = 0 THEN [s0 EXCEPT !.r = 0]
        ELSE LET s1 == IF s0.pins[i].secret[1] = NoSecret
                       THEN read_one_pin(s0, env, i, 1)
                       ELSE s0
             IN  sc_verify(s1, env, SC_AC_CHV, reference, s1.pins[i].secret[1])

\* Mutant: a non-PIN method without a secret fails the entry.
do_verify_pin_NoSecretFails(st, env, type, reference) ==
    LET s0 == Logged(st, Ev("check", <<type, reference>>, 0, 0))
        exact == sc_profile_find_key(s0, type, reference)
        wild == sc_profile_find_key(s0, type, AnyRef)
        found == IF exact # {} THEN exact ELSE wild
        i == PinIndex(s0, reference)
    IN  IF found # {}
        THEN sc_verify(s0, env, type, reference, (CHOOSE k \in found : TRUE).key)
        ELSE IF type # SC_AC_CHV
             THEN [s0 EXCEPT !.r = SC_ERROR_SECURITY_STATUS_NOT_SATISFIED]
        ELSE IF i = 0 THEN [s0 EXCEPT !.r = 0]
        ELSE LET s1 == IF s0.pins[i].secret[1] = NoSecret
                       THEN read_one_pin(s0, env, i, 1)
                       ELSE s0
             IN  sc_verify(s1, env, SC_AC_CHV, reference, s1.pins[i].secret[1])

do_verify_pin(st, env, type, reference) ==
    LET s0 == Logged(st, Ev("check", <<type, reference>>, 0, 0))
        exact == sc_profile_find_key(s0, type, reference)
        wild == sc_profile_find_key(s0, type, AnyRef)
        found == IF exact # {} THEN exact ELSE wild
        i == PinIndex(s0, reference)
    IN  IF found # {}
        THEN sc_verify(s0, env, type, reference, (CHOOSE k \in found : TRUE).key)
        ELSE IF type # SC_AC_CHV THEN [s0 EXCEPT !.r = 0]
        ELSE IF i = 0 THEN [s0 EXCEPT !.r = 0]
        ELSE LET s1 == IF s0.pins[i].secret[1] = NoSecret
                       THEN read_one_pin(s0, env, i, 1)
                       ELSE s0
             IN  sc_verify(s1, env, SC_AC_CHV, reference, s1.pins[i].secret[1])

(***************************************************************************)
(* sc_pkcs15init_authenticate                                              *)
(***************************************************************************)
RECURSIVE AclLoop(_, _, _)
AclLoop(st, env, chain) ==
    IF st.r # 0 \/ chain = <<>> THEN st
    ELSE IF Head(chain).method = SC_AC_NEVER
         THEN [st EXCEPT !.r = SC_ERROR_SECURITY_STATUS_NOT_SATISFIED]
    ELSE IF Head(chain).method = SC_AC_NONE THEN st
    ELSE AclLoop(do_verify_pin(st, env, Head(chain).method, Head(chain).key_ref),
                 env, Tail(chain))

sc_file_get_acl_entry(st, file, op) == st.acl[file][op]

\* Mutant: a NEVER entry is skipped instead of failing the chain.
RECURSIVE AclLoop_SkipNever(_, _, _)
AclLoop_SkipNever(st, env, chain) ==
    IF st.r # 0 \/ chain = <<>> THEN st
    ELSE IF Head(chain).method = SC_AC_NEVER THEN AclLoop_SkipNever(st, env, Tail(chain))
    ELSE IF Head(chain).method = SC_AC_NONE THEN st
    ELSE AclLoop_SkipNever(do_verify_pin(st, env, Head(chain).method, Head(chain).key_ref),
                           env, Tail(chain))

AuthenticateChain_SkipNever(st, env, chain, file, op) ==
    LET s1 == AclLoop_SkipNever([st EXCEPT !.r = 0], env, chain)
    IN  Logged(s1, Ev("auth", file, op, s1.r))

\* Mutant: a NONE entry is skipped (continue) instead of ending the walk (break).
RECURSIVE AclLoop_NoneContinues(_, _, _)
AclLoop_NoneContinues(st, env, chain) ==
    IF st.r # 0 \/ chain = <<>> THEN st
    ELSE IF Head(chain).method = SC_AC_NEVER
         THEN [st EXCEPT !.r = SC_ERROR_SECURITY_STATUS_NOT_SATISFIED]
    ELSE IF Head(chain).method = SC_AC_NONE THEN AclLoop_NoneContinues(st, env, Tail(chain))
    ELSE AclLoop_NoneContinues(do_verify_pin(st, env, Head(chain).method, Head(chain).key_ref),
                               env, Tail(chain))

AuthenticateChain_NoneContinues(st, env, chain, file, op) ==
    LET s1 == AclLoop_NoneContinues([st EXCEPT !.r = 0], env, chain)
    IN  Logged(s1, Ev("auth", file, op, s1.r))

\* Mutant: every failure is reported as SecurityStatusNotSatisfied.
AuthenticateChain_MasksError(st, env, chain, file, op) ==
    LET s1 == AclLoop([st EXCEPT !.r = 0], env, chain)
        r == IF s1.r # 0 THEN SC_ERROR_SECURITY_STATUS_NOT_SATISFIED ELSE 0
    IN  [Logged(s1, Ev("auth", file, op, r)) EXCEPT !.r = r]

\* authenticate on an ACL chain; the "auth" event closes the call in the log.
AuthenticateChain(st, env, chain, file, op) ==
    LET s1 == AclLoop([st EXCEPT !.r = 0], env, chain)
    IN  Logged(s1, Ev("auth", file, op, s1.r))

sc_pkcs15init_authenticate(st, env, file, op) ==
    AuthenticateChain(st, env, sc_file_get_acl_entry(st, file, op), file, op)

(***************************************************************************)
(* The card's file system (libopensc side of sc_select_file,               *)
(* sc_create_file, sc_update_binary).  A path is a sequence of bytes, two  *)
(* per component.                                                          *)
(***************************************************************************)
MF == <<63, 0>>                 \* "3F00"
D1 == <<63, 0, 80, 21>>         \* the application DF
D2 == <<63, 0, 80, 21, 75, 1>>  \* a DF below it
EF == <<63, 0, 80, 21, 75, 1, 68, 1>>
Paths == {MF, D1, D2, EF}
NoPath == <<>>

Max(a, b) == IF a < b THEN b ELSE a

sc_select_file(st, env, path) ==
    LET r == IF Faulty(st, env) THEN SC_ERROR_CARD_CMD_FAILED
             ELSE IF path \in st.card.exists THEN 0
             ELSE SC_ERROR_FILE_NOT_FOUND
    IN  [Logged(st, Ev("select", path, 0, r))
            EXCEPT !.n = @ + 1, !.r = r,
                   !.card.cur = IF r = 0 THEN path ELSE @]

\* The new file has the descriptor's declared size and is zero filled.
sc_create_file(st, env, file) ==
    LET r == IF Faulty(st, env) THEN SC_ERROR_CARD_CMD_FAILED
             ELSE IF file \in st.card.exists THEN SC_ERROR_FILE_ALREADY_EXISTS
             ELSE 0
        s1 == [Logged(st, Ev("create", file, st.fsize[file], r))
                  EXCEPT !.n = @ + 1, !.r = r]
    IN  IF r # 0 THEN s1
        ELSE [s1 EXCEPT !.card.exists = @ \cup {file},
                        !.card.size[file] = st.fsize[file],
                        !.card.content[file] = [i \in 1..st.fsize[file] |-> 0]]

\* UPDATE BINARY on the selected file: the bytes from idx on are overwritten,
\* the bytes beyond the data keep their value; the count written is returned.
sc_update_binary(st, env, idx, data) ==
    LET f == st.card.cur
        r == IF Faulty(st, env) THEN SC_ERROR_CARD_CMD_FAILED
             ELSE IF f = NoPath THEN SC_ERROR_FILE_NOT_FOUND
             ELSE IF idx + Len(data) > st.card.size[f] THEN SC_ERROR_WRONG_LENGTH
             ELSE Len(data)
        s1 == [Logged(st, Ev("write", f, <<idx, data>>, r))
                  EXCEPT !.n = @ + 1, !.r = r]
    IN  IF r < 0 THEN s1
        ELSE [s1 EXCEPT !.card.content[f] =
                 [i \in 1..Len(@) |-> IF i > idx /\ i <= idx + Len(data)
                                      THEN data[i - idx] ELSE @[i]]]

\* sc_profile_find_file_by_path: the profile declares a file for this path.
sc_profile_find_file_by_path(st, path) == path \in st.tmpl

(***************************************************************************)
(* do_select_parent and sc_pkcs15init_create_file                          *)
(***************************************************************************)
\* path = file->path; if (path.len >= 2) path.len -= 2;
\* if (path.len == 0) sc_format_path("3F00", &path);
ParentPath(file) ==
    LET p == IF Len(file) >= 2 THEN SubSeq(file, 1, Len(file) - 2) ELSE file
    IN  IF Len(p) = 0 THEN MF ELSE p

RECURSIVE CreateFileRec(_, _, _)
RECURSIVE SelectParentRec(_, _, _)

SelectParentRec(st, env, file) ==
    Then(sc_select_file(st, env, ParentPath(file)), LAMBDA s1 :
         IF s1.r = SC_ERROR_FILE_NOT_FOUND /\ Len(ParentPath(file)) # 2
         THEN IF sc_profile_find_file_by_path(s1, ParentPath(file))
              THEN Then(CreateFileRec(s1, env, ParentPath(file)), LAMBDA s2 :
                        IF s2.r = 0 THEN sc_select_file(s2, env, ParentPath(file))
                        ELSE s2)
              ELSE s1
         ELSE s1)

CreateFileRec(st, env, file) ==
    Then(SelectParentRec(st, env, file), LAMBDA s1 :
         IF s1.r < 0 THEN s1
         ELSE Then(sc_pkcs15init_authenticate(s1, env, ParentPath(file), "CREATE"),
                   LAMBDA s2 : IF s2.r < 0 THEN s2 ELSE sc_create_file(s2, env, file)))

do_select_parent(st, env, file) == SelectParentRec(st, env, file)

\* Mutant: the file is created without authenticating the parent's CREATE ACL.
sc_pkcs15init_create_file_NoAuth(st, env, file) ==
    Then(SelectParentRec(st, env, file), LAMBDA s1 :
         IF s1.r < 0 THEN s1 ELSE sc_create_file(s1, env, file))

sc_pkcs15init_create_file(st, env, file) == CreateFileRec(st, env, file)

(***************************************************************************)
(* sc_pkcs15init_update_file                                               *)
(***************************************************************************)
\* Mutant: the declared size is left as it was.
RaiseSize_Keep(st, file, datalen) == st

\* if (file->size < datalen) file->size = datalen;
RaiseSize(st, file, datalen) ==
    [st EXCEPT !.fsize[file] = Max(@, datalen)]

\* Mutant: the write is issued whatever authenticate returned.
AuthenticateAndWrite_Unchecked(st, env, file, data) ==
    sc_update_binary(sc_pkcs15init_authenticate(st, env, file, "UPDATE"), env, 0, data)

\* r = authenticate(UPDATE); if (r >= 0) r = sc_update_binary(card, 0, data, ...)
AuthenticateAndWrite(st, env, file, data) ==
    Then(sc_pkcs15init_authenticate(st, env, file, "UPDATE"), LAMBDA s1 :
         IF s1.r >= 0 THEN sc_update_binary(s1, env, 0, data) ELSE s1)

\* the not-found path: create the file, select it again
CreateAndSelect(st, env, file) ==
    Then(sc_pkcs15init_create_file(st, env, file), LAMBDA s1 :
         IF s1.r < 0 THEN s1 ELSE sc_select_file(s1, env, file))

\* Mutant: a file that is already there is authenticated but not written.
sc_pkcs15init_update_file_NewOnly(st, env, file, data) ==
    Then(sc_select_file(st, env, file), LAMBDA s1 :
         IF s1.r < 0
         THEN Then(RaiseSize(s1, file, Len(data)), LAMBDA s2 :
                   IF s2.r # SC_ERROR_FILE_NOT_FOUND THEN s2
                   ELSE Then(CreateAndSelect(s2, env, file), LAMBDA s3 :
                             IF s3.r < 0 THEN s3
                             ELSE AuthenticateAndWrite(s3, env, file, data)))
         ELSE sc_pkcs15init_authenticate(s1, env, file, "UPDATE"))

sc_pkcs15init_update_file(st, env, file, data) ==
    Then(sc_select_file(st, env, file), LAMBDA s1 :
         IF s1.r < 0
         THEN Then(RaiseSize(s1, file, Len(data)), LAMBDA s2 :
                   IF s2.r # SC_ERROR_FILE_NOT_FOUND THEN s2
                   ELSE Then(CreateAndSelect(s2, env, file), LAMBDA s3 :
                             IF s3.r < 0 THEN s3
                             ELSE AuthenticateAndWrite(s3, env, file, data)))
         ELSE AuthenticateAndWrite(s1, env, file, data))

(***************************************************************************)
(* The key object manager.                                                 *)
(***************************************************************************)
SC_ALGORITHM_RSA == 0
SC_ALGORITHM_DSA == 1
OtherAlgorithm == 2     \* an algorithm sc_pkcs15init_setup_key has no case for

SC_PKCS15_TYPE_PRKEY_RSA == "PRKEY_RSA"
SC_PKCS15_TYPE_PRKEY_DSA == "PRKEY_DSA"
SC_PKCS15_TYPE_PUBKEY_RSA == "PUBKEY_RSA"
SC_PKCS15_TYPE_PUBKEY_DSA == "PUBKEY_DSA"
NoType == "NONE"

\* type & SC_PKCS15_TYPE_CLASS_MASK
TypeClass(type) ==
    IF type \in {SC_PKCS15_TYPE_PRKEY_RSA, SC_PKCS15_TYPE_PRKEY_DSA} THEN "PRKEY"
    ELSE IF type \in {SC_PKCS15_TYPE_PUBKEY_RSA, SC_PKCS15_TYPE_PUBKEY_DSA} THEN "PUBKEY"
    ELSE "NONE"

\* the directory file that holds the objects of a class
DfOf(type) == IF TypeClass(type) = "PRKEY" THEN "PRKDF" ELSE "PUKDF"

NoName == ""            \* keyargs->template_name == NULL
NoLabel == ""           \* keyargs->label == NULL, or an empty template label
NoId == <<>>            \* an identifier of length 0
NoAcl == <<>>           \* key_acl == NULL

\* sc_pkcs15_format_id("45", ip)
DefaultId == <<69>>

\* Mutant: the identifier is used as it is, the index is not added.
Perturb_Unchanged(id, index) == id

\* ip->value[ip->len-1] += index, on an unsigned byte
Perturb(id, index) ==
    [i \in 1..Len(id) |-> IF i = Len(id) THEN (id[i] + index) % 256 ELSE id[i]]

\* sc_pkcs15_get_objects(p15card, type, NULL, 0): the number of objects of the type
sc_pkcs15_get_objects(st, type) ==
    Cardinality({i \in 1..Len(st.df[DfOf(type)]) : st.df[DfOf(type)][i].type = type})

\* sc_pkcs15_compare_id
sc_pkcs15_compare_id(ida, idb) == ida = idb

\* compare_id: only the RSA types have a case
compare_id(obj, idb) ==
    IF obj.type \in {SC_PKCS15_TYPE_PRKEY_RSA, SC_PKCS15_TYPE_PUBKEY_RSA}
    THEN sc_pkcs15_compare_id(obj.id, idb)
    ELSE FALSE

\* sc_pkcs15init_find_key: is there an object of the type compare_id accepts
sc_pkcs15init_find_key(st, type, id) ==
    \E i \in 1..Len(st.df[DfOf(type)]) :
        /\ st.df[DfOf(type)][i].type = type
        /\ compare_id(st.df[DfOf(type)][i], id)

\* sc_profile_find_private_key / sc_profile_find_public_key, or the list head:
\* the index of the template in the list, 0 for NULL
FindTemplate(list, name) ==
    LET hits == {i \in 1..Len(list) : name = NoName \/ list[i].name = name}
    IN  IF hits = {} THEN 0 ELSE CHOOSE i \in hits : \A j \in hits : i <= j

\* sc_pkcs15_find_pin_by_auth_id: index of the PIN object in the AODF, 0 if none
sc_pkcs15_find_pin_by_auth_id(st, auth_id) ==
    LET hits == {i \in 1..Len(st.df["AODF"]) : st.df["AODF"][i].auth_id = auth_id}
    IN  IF hits = {} THEN 0 ELSE CHOOSE i \in hits : \A j \in hits : i <= j

\* profile->ops->allocate_file(profile, card, type, index, &out->file)
allocate_file(st, env, type, index) ==
    LET r == IF env.allocFails THEN SC_ERROR_NOT_SUPPORTED ELSE 0
    IN  [Logged(st, Ev("alloc", type, index, r)) EXCEPT !.r = r]

\* the label of the new object
NewLabel(st, template, fallback) ==
    IF st.keyargs.label # NoLabel THEN st.keyargs.label
    ELSE IF template.label = NoLabel THEN fallback
    ELSE template.label

\* the identifier of the new object
NewId(st, template, index) ==
    IF Len(st.keyargs.id) # 0 THEN st.keyargs.id
    ELSE Perturb(IF Len(template.id) = 0 THEN DefaultId ELSE template.id, index)

\* Mutant: the key reference is the PIN object's position, not its reference.
KeyAcl_Position(st, pin) == <<Entry(SC_AC_CHV, pin)>>

\* out->key_acl of a private key whose template names a PIN
KeyAcl(st, pin) == <<Entry(SC_AC_CHV, st.df["AODF"][pin].reference)>>

\* Mutant: the identifier is not written back into the request.
RegisterKey_NoWriteBack(st, env, type, index, obj) ==
    IF Len(obj.id) = 0 THEN [st EXCEPT !.r = SC_ERROR_INVALID_ARGUMENTS]
    ELSE IF obj.usage = 0 THEN [st EXCEPT !.r = SC_ERROR_INVALID_ARGUMENTS]
    ELSE LET s1 == allocate_file(st, env, type, index)
         IN  IF s1.r < 0 THEN s1
             ELSE [s1 EXCEPT !.df[DfOf(type)] =
                                 Append(@, [obj EXCEPT !.path = <<type, index>>,
                                                       !.type = type]),
                             !.r = 0]

\* Mutant: the usage flags are not looked at.
RegisterKey_NoUsageCheck(st, env, type, index, obj) ==
    IF Len(obj.id) = 0 THEN [st EXCEPT !.r = SC_ERROR_INVALID_ARGUMENTS]
    ELSE LET s1 == allocate_file(st, env, type, index)
         IN  IF s1.r < 0 THEN s1
             ELSE [s1 EXCEPT !.df[DfOf(type)] =
                                 Append(@, [obj EXCEPT !.path = <<type, index>>,
                                                       !.type = type]),
                             !.keyargs.id = obj.id,
                             !.r = 0]

\* the part shared by both: sanity checks, allocate_file, sc_pkcs15_add_object
\* and the write back of the identifier into the request
RegisterKey(st, env, type, index, obj) ==
    IF Len(obj.id) = 0 THEN [st EXCEPT !.r = SC_ERROR_INVALID_ARGUMENTS]
    ELSE IF obj.usage = 0 THEN [st EXCEPT !.r = SC_ERROR_INVALID_ARGUMENTS]
    ELSE LET s1 == allocate_file(st, env, type, index)
         IN  IF s1.r < 0 THEN s1
             ELSE [s1 EXCEPT !.df[DfOf(type)] =
                                 Append(@, [obj EXCEPT !.path = <<type, index>>,
                                                       !.type = type]),
                             !.keyargs.id = obj.id,
                             !.r = 0]

\* An object record carries, besides the fields of the PKCS#15 object, the
\* field `derived`: the identifier was derived from the template's default
\* and not given in the request.  No code reads it; the claims about
\* identifier allocation do.
sc_pkcs15init_new_private_key(st, env, type) ==
    LET index == sc_pkcs15_get_objects(st, type)
        t == FindTemplate(st.tpl.priv, st.keyargs.template_name)
        template == st.tpl.priv[t]
        pin == sc_pkcs15_find_pin_by_auth_id(st, template.auth_id)
        obj == [type |-> NoType,
                label |-> NewLabel(st, template, "Private Key"),
                id |-> NewId(st, template, index),
                auth_id |-> template.auth_id,
                usage |-> template.usage,
                key_acl |-> IF Len(template.auth_id) # 0 THEN KeyAcl(st, pin) ELSE NoAcl,
                path |-> NoPath,
                modulus_length |-> 0,
                derived |-> Len(st.keyargs.id) = 0]
    IN  IF t = 0 THEN [st EXCEPT !.r = SC_ERROR_OBJECT_NOT_FOUND]
        ELSE IF Len(template.auth_id) # 0 /\ pin = 0
             THEN [st EXCEPT !.r = SC_ERROR_OBJECT_NOT_FOUND]
        ELSE RegisterKey(st, env, type, index, obj)

sc_pkcs15init_new_public_key(st, env, type) ==
    LET index == sc_pkcs15_get_objects(st, type)
        t == FindTemplate(st.tpl.pub, st.keyargs.template_name)
        template == st.tpl.pub[t]
        obj == [type |-> NoType,
                label |-> NewLabel(st, template, "Public Key"),
                id |-> NewId(st, template, index),
                auth_id |-> template.auth_id,
                usage |-> template.usage,
                key_acl |-> NoAcl,
                path |-> NoPath,
                modulus_length |-> 0,
                derived |-> Len(st.keyargs.id) = 0]
    IN  IF t = 0 THEN [st EXCEPT !.r = SC_ERROR_OBJECT_NOT_FOUND]
        ELSE RegisterKey(st, env, type, index, obj)

\* switch (keyargs->algorithm | (is_private << 16))
KeyType(algorithm, is_private) ==
    IF algorithm = SC_ALGORITHM_RSA /\ is_private THEN SC_PKCS15_TYPE_PRKEY_RSA
    ELSE IF algorithm = SC_ALGORITHM_DSA /\ is_private THEN SC_PKCS15_TYPE_PRKEY_DSA
    ELSE IF algorithm = SC_ALGORITHM_RSA THEN SC_PKCS15_TYPE_PUBKEY_RSA
    ELSE IF algorithm = SC_ALGORITHM_DSA THEN SC_PKCS15_TYPE_PUBKEY_DSA
    ELSE NoType

sc_pkcs15init_setup_key(st, env, is_private) ==
    LET type == KeyType(st.keyargs.algorithm, is_private)
    IN  IF type = NoType THEN [st EXCEPT !.r = SC_ERROR_NOT_SUPPORTED]
        ELSE IF sc_pkcs15init_find_key(st, type, st.keyargs.id)
             THEN [st EXCEPT !.r = SC_ERROR_NOT_SUPPORTED]
        ELSE IF TypeClass(type) = "PRKEY"
             THEN sc_pkcs15init_new_private_key(st, env, type)
        ELSE sc_pkcs15init_new_public_key(st, env, type)

(***************************************************************************)
(* do_read_pins                                                            *)
(***************************************************************************)
\* sc_profile_find_pin(pro, ident): the position of the policy, 0 for NULL
sc_profile_find_pin(st, ident) ==
    LET hits == {i \in 1..Len(st.pins) : st.pins[i].ident = ident}
    IN  IF hits = {} THEN 0 ELSE CHOOSE i \in hits : \A j \in hits : i <= j

\* Mutant: the unblock retry count is not looked at.
NPins_IgnoreAttempt(r, info) == IF r = 0 THEN 1 ELSE 2

\* npins = 2; if the PIN file could be selected npins = 1;
\* if (info->attempt[1] == 0) npins = 1
NPins(r, info) ==
    IF r = 0 THEN 1
    ELSE IF info.attempt[2] = 0 THEN 1
    ELSE 2

\* the body of the loop over the two PIN types
ReadPinsOf(st, env, ident) ==
    LET i == sc_profile_find_pin(st, ident)
        s1 == sc_select_file(st, env, st.pins[i].file)
        npins == NPins(s1.r, s1.pins[i])
        s2 == read_one_pin(s1, env, i, 1)
    IN  IF i = 0 THEN st
        ELSE IF npins = 1 THEN s2
        ELSE read_one_pin(s2, env, i, 2)

do_read_pins(st, env) ==
    [ReadPinsOf(ReadPinsOf(st, env, "CHV1"), env, "CHV2") EXCEPT !.r = 0]

(***************************************************************************)
(* The directory encoder and writer: sc_pkcs15init_update_odf and          *)
(* sc_pkcs15init_update_df.  The encoders are libopensc's; an encoding is  *)
(* a sequence of bytes: in the ODF one entry (tag of the directory file,   *)
(* two bytes of file identifier) per backing file, in a directory file one *)
(* record (tag 0x30, identifier) per object.                               *)
(***************************************************************************)
OdfFile == <<63, 0, 80, 21, 80, 49>>        \* p15card->file_odf, 3F00/5015/5031
AodfFile == <<63, 0, 80, 21, 68, 1>>
PrkdfFile == <<63, 0, 80, 21, 68, 2>>
PukdfFile == <<63, 0, 80, 21, 68, 3>>

\* the directory files in the order of their SC_PKCS15_* index
DfTypes == <<"PRKDF", "PUKDF", "AODF">>

\* the context tag of the ODF entry: 0xA0 + SC_PKCS15_PRKDF (0), PUKDF (1), AODF (8)
OdfTag(t) == IF t = "PRKDF" THEN 160 ELSE IF t = "PUKDF" THEN 161 ELSE 168

RECURSIVE Concat(_)
Concat(ss) == IF ss = <<>> THEN <<>> ELSE Head(ss) \o Concat(Tail(ss))

\* the last path component
FileId(path) == SubSeq(path, Len(path) - 1, Len(path))

OdfEntries(st, t) ==
    Concat([j \in 1..Len(st.dffile[t]) |-> <<OdfTag(t)>> \o FileId(st.dffile[t][j])])

sc_pkcs15_encode_odf(st) ==
    Concat([k \in 1..Len(DfTypes) |-> OdfEntries(st, DfTypes[k])])

RecordOf(obj) == <<48>> \o (IF "id" \in DOMAIN obj THEN obj.id ELSE obj.auth_id)

\* sc_pkcs15_add_object(p15card, df, 0, obj) puts every object in segment 0
sc_pkcs15_encode_df(st, t, j) ==
    IF j = 1 THEN Concat([k \in 1..Len(st.df[t]) |-> RecordOf(st.df[t][k])])
    ELSE <<>>

sc_pkcs15init_update_odf(st, env) ==
    sc_pkcs15init_update_file(st, env, OdfFile, sc_pkcs15_encode_odf(st))

\* for (j = 0; r >= 0 && j < df->count; j++)
RECURSIVE WriteSegments(_, _, _, _)
WriteSegments(st, env, df_type, j) ==
    IF st.r < 0 \/ j > Len(st.dffile[df_type]) THEN st
    ELSE Then(sc_pkcs15init_update_file(st, env, st.dffile[df_type][j],
                                        sc_pkcs15_encode_df(st, df_type, j)),
              LAMBDA s1 : WriteSegments(s1, env, df_type, j + 1))

\* df->file[df->count++] = file; r = sc_pkcs15init_update_odf(p15card, profile)
BindAndRefresh(st, env, df_type, file) ==
    sc_pkcs15init_update_odf([st EXCEPT !.dffile[df_type] = Append(@, file)], env)

\* Mutant: the first segment is bound but the ODF is not refreshed.
sc_pkcs15init_update_df_NoRefresh(st, env, df_type) ==
    LET file == st.prodf[df_type]
    IN  IF Len(st.dffile[df_type]) = 0
        THEN IF file = NoPath THEN [st EXCEPT !.r = SC_ERROR_NOT_SUPPORTED]
             ELSE WriteSegments([st EXCEPT !.dffile[df_type] = Append(@, file), !.r = 0],
                                env, df_type, 1)
        ELSE WriteSegments([st EXCEPT !.r = 0], env, df_type, 1)

sc_pkcs15init_update_df(st, env, df_type) ==
    LET file == st.prodf[df_type]
    IN  IF Len(st.dffile[df_type]) = 0
        THEN IF file = NoPath THEN [st EXCEPT !.r = SC_ERROR_NOT_SUPPORTED]
             ELSE Then(BindAndRefresh(st, env, df_type, file), LAMBDA s1 :
                       IF s1.r < 0 THEN s1 ELSE WriteSegments(s1, env, df_type, 1))
        ELSE WriteSegments([st EXCEPT !.r = 0], env, df_type, 1)

(***************************************************************************)
(* Key storage: sc_pkcs15init_store_private_key and                        *)
(* sc_pkcs15init_store_public_key.                                         *)
(***************************************************************************)
EVP_PKEY_RSA == "RSA"
EVP_PKEY_DSA == "DSA"
EVP_PKEY_DH == "DH"         \* a key type neither store function has a case for
EVP_PKEY_NONE == "NONE"     \* the type of a fresh EVP_PKEY_new()

\* RSA_size(rsa) * 8, DSA_size(dsa) * 8
KeyBits == 1024

\* the path of the file allocate_file returned for the object: one file per
\* type and index in the application directory
KeyPath(path) ==
    D1 \o <<(IF TypeClass(path[1]) = "PRKEY" THEN 48 ELSE 49)
              + (IF path[1] \in {SC_PKCS15_TYPE_PRKEY_DSA, SC_PKCS15_TYPE_PUBKEY_DSA}
                 THEN 16 ELSE 0),
            path[2]>>

\* i2d_RSAPublicKey(rsa, &p): the DER encoding of the public key
i2d_RSAPublicKey == <<48, 1, 1>>

\* ops.store_rsa(profile, card, &info, rsa) / ops.store_dsa(...): the card
\* driver stores the key in the file of the object; one card operation.
\* Then info.pkcs15.priv.modulus_length is set, whatever the driver returned.
NativeStore(st, env, alg) ==
    LET r == IF Faulty(st, env) THEN SC_ERROR_CARD_CMD_FAILED ELSE 0
        k == Len(st.df["PRKDF"])
    IN  [Logged(st, Ev("store", alg, KeyPath(st.df["PRKDF"][k].path), r))
            EXCEPT !.n = @ + 1, !.r = r,
                   !.df["PRKDF"][k].modulus_length = KeyBits]

\* r = SC_ERROR_NOT_SUPPORTED; switch (keyargs->pkey->type) ...
StoreNative(st, env) ==
    IF st.keyargs.pkey = EVP_PKEY_RSA /\ st.ops.store_rsa THEN NativeStore(st, env, "rsa")
    ELSE IF st.keyargs.pkey = EVP_PKEY_DSA /\ st.ops.store_dsa THEN NativeStore(st, env, "dsa")
    ELSE [st EXCEPT !.r = SC_ERROR_NOT_SUPPORTED]

\* Mutant: the PrKDF is updated whatever the native store returned.
sc_pkcs15init_store_private_key_Unchecked(st, env) ==
    Then(sc_pkcs15init_setup_key(st, env, TRUE), LAMBDA s1 :
         IF s1.r < 0 THEN s1
         ELSE Then(StoreNative(s1, env), LAMBDA s2 :
                   sc_pkcs15init_update_df(s2, env, "PRKDF")))

sc_pkcs15init_store_private_key(st, env) ==
    Then(sc_pkcs15init_setup_key(st, env, TRUE), LAMBDA s1 :
         IF s1.r < 0 THEN s1
         ELSE Then(StoreNative(s1, env), LAMBDA s2 :
                   IF s2.r < 0 THEN s2
                   ELSE sc_pkcs15init_update_df(s2, env, "PRKDF")))

\* the file of the public key object registered last
PublicKeyFile(st) == KeyPath(st.df["PUKDF"][Len(st.df["PUKDF"])].path)

StorePublic(st, env) ==
    Then(sc_pkcs15init_setup_key(st, env, FALSE), LAMBDA s1 :
         IF s1.r < 0 THEN s1
         ELSE IF s1.keyargs.pkey # EVP_PKEY_RSA
              THEN [s1 EXCEPT !.r = SC_ERROR_NOT_SUPPORTED]
         ELSE Then(sc_pkcs15init_update_file(
                       [s1 EXCEPT !.df["PUKDF"][Len(s1.df["PUKDF"])].modulus_length = KeyBits],
                       env, PublicKeyFile(s1), i2d_RSAPublicKey),
                   LAMBDA s2 : IF s2.r < 0 THEN s2
                               ELSE sc_pkcs15init_update_df(s2, env, "PUKDF")))

\* the "public" event closes the call in the log
sc_pkcs15init_store_public_key(st, env) ==
    Then(StorePublic(st, env), LAMBDA s1 :
         Logged(s1, Ev("public", s1.keyargs.pkey, 0, s1.r)))

(***************************************************************************)
(* Key generation: sc_pkcs15init_generate_key and the actions              *)
(* do_generate_key and do_store_private_key.                               *)
(***************************************************************************)
opt_quiet == FALSE      \* no option sets it

\* what the tool prints for the operator
Notice(st, what) == IF opt_quiet THEN st ELSE Logged(st, Ev("notice", what, 0, 0))

\* failed: error("...: %s", reason); return -1
Failed(st, action, reason) ==
    [Logged(st, Ev("error", action, reason, 0)) EXCEPT !.r = -1]

\* the key type RSA_generate_key / DSA_generate_key assign to keyargs->pkey
GeneratedKey(algorithm) ==
    IF algorithm = SC_ALGORITHM_RSA THEN EVP_PKEY_RSA ELSE EVP_PKEY_DSA

sc_pkcs15init_generate_key_soft(st, env) ==
    IF st.keyargs.algorithm \notin {SC_ALGORITHM_RSA, SC_ALGORITHM_DSA}
    THEN [st EXCEPT !.keyargs.pkey = EVP_PKEY_NONE, !.r = SC_ERROR_NOT_SUPPORTED]
    ELSE IF env.genFails
    THEN [st EXCEPT !.keyargs.pkey = EVP_PKEY_NONE, !.r = -1]
    ELSE Then(sc_pkcs15init_store_private_key(
                  [st EXCEPT !.keyargs.pkey = GeneratedKey(st.keyargs.algorithm)], env),
              LAMBDA s1 : IF s1.r < 0 THEN s1 ELSE [s1 EXCEPT !.r = 0])

\* one generation attempt; the "generate" event closes it in the log
sc_pkcs15init_generate_key(st, env) ==
    Then(IF st.keyargs.onboard_keygen
         THEN [st EXCEPT !.r = SC_ERROR_NOT_SUPPORTED]
         ELSE sc_pkcs15init_generate_key_soft(st, env),
         LAMBDA s1 : Logged(s1, Ev("generate",
                                   IF st.keyargs.onboard_keygen THEN "onboard"
                                   ELSE "software",
                                   0, s1.r)))

\* while (1) { r = generate; if (r != NOT_SUPPORTED || !onboard_keygen) break;
\*             warning; keyargs.onboard_keygen = 0; }
RECURSIVE GenerateLoop(_, _)
GenerateLoop(st, env) ==
    Then(sc_pkcs15init_generate_key(st, env), LAMBDA s1 :
         IF s1.r # SC_ERROR_NOT_SUPPORTED \/ ~s1.keyargs.onboard_keygen THEN s1
         ELSE GenerateLoop([Notice(s1, "downgrade")
                               EXCEPT !.keyargs.onboard_keygen = FALSE], env))

\* Mutant: one attempt, no downgrade to software generation.
GenerateWithFallback_NoRetry(st, env) == sc_pkcs15init_generate_key(st, env)

GenerateWithFallback(st, env) == GenerateLoop(st, env)

\* do_write_public_key(opt_outkey, opt_format, keyargs.pkey)
do_write_public_key(st, env) ==
    [Logged(st, Ev("output", st.keyargs.pkey, 0, IF env.writeFails THEN -1 ELSE 0))
        EXCEPT !.r = IF env.writeFails THEN -1 ELSE 0]

\* if (r >= 0) return 0; sc_failed: reason = sc_strerror(r)
ZeroOrFailed(st, action) ==
    IF st.r >= 0 THEN [st EXCEPT !.r = 0] ELSE Failed(st, action, st.r)

\* the part of do_generate_key after the generation loop: r of the public-key
\* storage is overwritten by r of do_write_public_key when opt_outkey is set
StorePublicAndWrite(st, env, outkey) ==
    Then(sc_pkcs15init_store_public_key(st, env), LAMBDA s1 :
         Then(IF outkey THEN do_write_public_key(Notice(s1, "writing"), env) ELSE s1,
              LAMBDA s2 : ZeroOrFailed(s2, "generate")))

\* the key specification of --generate-key: "rsa" or "dsa", then "/" or "-"
\* and the number of bits
ParsedAlgorithm(spec) ==
    IF spec.alg = "rsa" THEN SC_ALGORITHM_RSA ELSE SC_ALGORITHM_DSA

\* req.onboard is keyargs.onboard_keygen: no option of this revision sets
\* it; a request that carries it is a caller asking for on-card generation.
do_generate_key(st, env, req) ==
    IF req.spec.alg \notin {"rsa", "dsa"}
    THEN Failed(st, "generate", "algorithm not supported")
    ELSE IF ~req.spec.bits
    THEN Failed(st, "generate", "invalid bit number")
    ELSE Then(GenerateWithFallback(
                  [st EXCEPT !.keyargs =
                      [algorithm |-> ParsedAlgorithm(req.spec), id |-> req.id,
                       label |-> NoLabel, template_name |-> NoName,
                       pkey |-> EVP_PKEY_NONE, onboard_keygen |-> req.onboard]], env),
              LAMBDA s1 : IF s1.r # 0 THEN Failed(s1, "generate", s1.r)
                          ELSE StorePublicAndWrite(s1, env, req.outkey))

\* do_read_private_key: the type of the key in the file; a format other
\* than PEM is an error.  memset(&args, 0, sizeof(args)) leaves algorithm 0.
do_store_private_key(st, env, req) ==
    IF ~req.pem THEN [st EXCEPT !.r = -1]
    ELSE Then(sc_pkcs15init_store_private_key(
                  [st EXCEPT !.keyargs =
                      [algorithm |-> 0, id |-> req.id, label |-> NoLabel,
                       template_name |-> NoName, pkey |-> req.keyfile,
                       onboard_keygen |-> FALSE]], env),
              LAMBDA s1 :
                  IF s1.r < 0 THEN Failed(s1, "store", s1.r)
                  ELSE Then(sc_pkcs15init_store_public_key(s1, env), LAMBDA s2 :
                            IF s2.r < 0 THEN Failed(s2, "store", s2.r)
                            ELSE [s2 EXCEPT !.r = 0]))

(***************************************************************************)
(* The state machine.  An action takes the engine state from the           *)
(* variables, runs one engine call to its end and stores what it left.     *)
(***************************************************************************)
NoArgs == [algorithm |-> OtherAlgorithm, id |-> NoId, label |-> NoLabel,
           template_name |-> NoName]

St == [pins |-> pins, keys |-> keys, tmpl |-> tmpl, fsize |-> fsize, acl |-> acl,
       card |-> card, df |-> df, tpl |-> tpl, dffile |-> dffile, prodf |-> prodf,
       ops |-> ops, keyargs |-> NoArgs,
       log |-> <<>>, n |-> 0, r |-> 0]

Commit(st, c) ==
    /\ pins' = st.pins
    /\ keys' = st.keys
    /\ tmpl' = st.tmpl
    /\ fsize' = st.fsize
    /\ acl' = st.acl
    /\ card' = st.card
    /\ df' = st.df
    /\ tpl' = st.tpl
    /\ dffile' = st.dffile
    /\ prodf' = st.prodf
    /\ ops' = st.ops
    /\ log' = st.log
    /\ ret' = st.r
    /\ call' = c

\* The environments of a call: the secret typed matters only when a PIN slot
\* is still unset.
Typed == IF \E i \in 1..Len(pins) : pins[i].secret[1] = NoSecret THEN Secrets ELSE {GoodSecret}

Envs == [faultAt : 0..MaxFault, typed : Typed, allocFails : {FALSE}]

Ops == {"CREATE", "UPDATE"}

\* PIN policies CHV1 (reference 1) and CHV2 (reference 2); secret[1] is the
\* PIN, secret[2] the PUK, preset by set_pins_from_args or not
Policy(ident, ref, pin) == [ident |-> ident, reference |-> ref, secret |-> <<pin, NoSecret>>]

PinLists ==
    {<<Policy("CHV1", 1, s)>> : s \in {NoSecret, GoodSecret, BadSecret}}
    \cup {<<Policy("CHV1", 1, s), Policy("CHV2", 2, NoSecret)>> : s \in {NoSecret, GoodSecret}}

KeyBinding(t, k, v) == [type |-> t, ref |-> k, key |-> v]

KeyLists ==
    SUBSET {KeyBinding(SC_AC_PRO, 1, GoodSecret),
            KeyBinding(SC_AC_PRO, AnyRef, BadSecret),
            KeyBinding(SC_AC_CHV, 1, BadSecret),
            KeyBinding(SC_AC_CHV, AnyRef, GoodSecret)}

AclEntries == {Entry(SC_AC_NEVER, 0), Entry(SC_AC_NONE, 0), Entry(SC_AC_CHV, 1),
               Entry(SC_AC_CHV, 2), Entry(SC_AC_PRO, 1), Entry(SC_AC_AUT, 1)}

AclChains == UNION {[1..n -> AclEntries] : n \in 0..MaxAclLen}

NoFiles == [exists |-> {}, size |-> [p \in Paths |-> 0],
            content |-> [p \in Paths |-> <<>>], cur |-> NoPath]

\* no directory file is backed by a file or declared by the profile, the
\* driver binds no native store operation
NoDirectories ==
    /\ dffile = [PRKDF |-> <<>>, PUKDF |-> <<>>, AODF |-> <<>>]
    /\ prodf = [PRKDF |-> NoPath, PUKDF |-> NoPath, AODF |-> NoPath]
    /\ ops = [store_rsa |-> FALSE, store_dsa |-> FALSE]

InitCommon ==
    /\ df = [PRKDF |-> <<>>, PUKDF |-> <<>>, AODF |-> <<>>]
    /\ tpl = [priv |-> <<>>, pub |-> <<>>]
    /\ NoDirectories
    /\ call = [name |-> "none"]
    /\ log = <<>>
    /\ ret = 0

(***************************************************************************)
(* The authentication engine on its own: authenticate, any number of times,*)
(* on a file whose UPDATE ACL is any chain of up to MaxAclLen entries.     *)
(***************************************************************************)
InitAuth ==
    /\ pins \in PinLists
    /\ keys \in KeyLists
    /\ tmpl = {}
    /\ fsize = [p \in Paths |-> 0]
    /\ \E chain \in AclChains :
           acl = [p \in Paths |-> [o \in Ops |-> IF p = EF /\ o = "UPDATE" THEN chain ELSE <<>>]]
    /\ card = NoFiles
    /\ InitCommon

Authenticate ==
    \E env \in Envs :
        LET s1 == sc_pkcs15init_authenticate(St, env, EF, "UPDATE")
        IN  Commit(s1, [name |-> "authenticate", chain |-> acl[EF]["UPDATE"],
                        pins |-> pins])

NextAuth == Authenticate

SpecAuth == InitAuth /\ [][NextAuth]_vars

(***************************************************************************)
(* The file system navigator: createFile and updateFile, any number of     *)
(* times, on a card that holds the files down to some depth, with a        *)
(* profile that declares some of the directories.                          *)
(***************************************************************************)
FileAcls ==
    {[CREATE |-> <<Entry(SC_AC_CHV, 1)>>, UPDATE |-> <<Entry(SC_AC_CHV, 1)>>],
     [CREATE |-> <<Entry(SC_AC_NONE, 0)>>, UPDATE |-> <<Entry(SC_AC_PRO, 1)>>],
     [CREATE |-> <<>>, UPDATE |-> <<Entry(SC_AC_NEVER, 0)>>]}

\* the files down to some depth exist, each of the declared size, zero filled
CardWith(files, size) ==
    [exists |-> files,
     size |-> [p \in Paths |-> IF p \in files THEN size ELSE 0],
     content |-> [p \in Paths |-> IF p \in files THEN [i \in 1..size |-> 0] ELSE <<>>],
     cur |-> NoPath]

DeclaredSize == 2

\* payloads of every length up to MaxPayload, and two of the same length
Payloads == {[i \in 1..n |-> 1] : n \in 1..MaxPayload} \cup {<<2>>}

InitFile ==
    /\ pins \in {<<Policy("CHV1", 1, s)>> : s \in {NoSecret, GoodSecret, BadSecret}}
    /\ keys = {}
    /\ tmpl \in SUBSET {D1, D2}
    /\ fsize = [p \in Paths |-> DeclaredSize]
    /\ \E a \in FileAcls : acl = [p \in Paths |-> a]
    /\ \E files \in {{}, {MF}, {MF, D1}, {MF, D1, D2}, Paths} :
           card = CardWith(files, DeclaredSize)
    /\ InitCommon

\* what the call record keeps of the state before the call
Before(name, file, data) ==
    [name |-> name, file |-> file, data |-> data,
     pre |-> card.exists, size0 |-> fsize[file],
     again |-> /\ call.name = "updateFile"
               /\ name = "updateFile"
               /\ call.file = file
               /\ call.data # data
               /\ file \notin call.pre
               /\ ret >= 0]

CreateFile ==
    \E file \in {D2, EF}, env \in Envs :
        Commit(sc_pkcs15init_create_file(St, env, file), Before("createFile", file, <<>>))

UpdateFile ==
    \E data \in Payloads, env \in Envs :
        Commit(sc_pkcs15init_update_file(St, env, EF, data), Before("updateFile", EF, data))

NextFile == CreateFile \/ UpdateFile

SpecFile == InitFile /\ [][NextFile]_vars

(***************************************************************************)
(* The key object manager: setupKey, for private and public keys, until    *)
(* MaxKeys objects are registered.                                         *)
(***************************************************************************)
PinObject(auth_id, ref) == [auth_id |-> auth_id, reference |-> ref]

Template(id, auth_id, usage) ==
    [name |-> "key", label |-> NoLabel, id |-> id, auth_id |-> auth_id, usage |-> usage]

KeyArgs(alg, id, label, name) ==
    [algorithm |-> alg, id |-> id, label |-> label, template_name |-> name]

\* the requests: with and without an explicit identifier, label and template name
Requests ==
    {KeyArgs(a, i, NoLabel, NoName) :
        a \in {SC_ALGORITHM_RSA, SC_ALGORITHM_DSA}, i \in {NoId, <<70>>}}
    \cup {KeyArgs(OtherAlgorithm, NoId, NoLabel, NoName),
          KeyArgs(SC_ALGORITHM_RSA, NoId, "mine", "key"),
          KeyArgs(SC_ALGORITHM_RSA, NoId, NoLabel, "absent")}

InitKey ==
    /\ pins = <<Policy("CHV1", 1, NoSecret)>>
    /\ keys = {}
    /\ tmpl = {}
    /\ fsize = [p \in Paths |-> 0]
    /\ acl = [p \in Paths |-> [o \in Ops |-> <<>>]]
    /\ card = NoFiles
    /\ \E id \in {NoId, <<1, 255>>}, usage \in {0, 1},
          auth \in {<<NoId, <<PinObject(<<1>>, 1)>>>>,
                    <<<<1>>, <<PinObject(<<1>>, 1)>>>>,
                    <<<<1>>, <<PinObject(<<2>>, 2), PinObject(<<1>>, 3)>>>>,
                    <<<<9>>, <<PinObject(<<1>>, 1)>>>>} :
           /\ tpl = [priv |-> <<Template(id, auth[1], usage)>>,
                     pub |-> <<Template(id, NoId, usage)>>]
           /\ df = [PRKDF |-> <<>>, PUKDF |-> <<>>, AODF |-> auth[2]]
    /\ NoDirectories
    /\ call = [name |-> "none"]
    /\ log = <<>>
    /\ ret = 0

Registered == Len(df["PRKDF"]) + Len(df["PUKDF"])

SetupKey ==
    /\ Registered < MaxKeys
    /\ \E args \in Requests, is_private \in BOOLEAN, fails \in BOOLEAN :
          LET env == [faultAt |-> 0, typed |-> GoodSecret, allocFails |-> fails]
              s1 == sc_pkcs15init_setup_key([St EXCEPT !.keyargs = args], env, is_private)
          IN  Commit(s1, [name |-> "setupKey", args |-> args, is_private |-> is_private,
                          type |-> KeyType(args.algorithm, is_private),
                          index |-> IF KeyType(args.algorithm, is_private) = NoType THEN 0
                                    ELSE sc_pkcs15_get_objects(St, KeyType(args.algorithm, is_private)),
                          id |-> s1.keyargs.id])

NextKey == SetupKey

SpecKey == InitKey /\ [][NextKey]_vars

(***************************************************************************)
(* PIN collection: do_read_pins on a profile with the policy CHV1 and,     *)
(* possibly, CHV2, each with or without a PUK (unblock retry count 0 or    *)
(* not), with secrets given on the command line or not, on a card that     *)
(* holds the PIN files or not.                                             *)
(***************************************************************************)
PinFile1 == <<63, 0, 80, 21, 0, 0>>
PinFile2 == <<63, 0, 80, 21, 0, 1>>
PinPaths == {MF, D1, PinFile1, PinFile2}

\* struct pin_info: attempt[0] and attempt[1] are the retry counts of the
\* PIN and of the PUK
PinInfo(ident, ref, pin, puk, tries, file) ==
    [ident |-> ident, reference |-> ref, secret |-> <<pin, puk>>,
     attempt |-> <<3, tries>>, file |-> file]

PinProfiles ==
    LET First1 == {PinInfo("CHV1", 1, pin, puk, tries, PinFile1) :
                      pin \in {NoSecret, GoodSecret}, puk \in {NoSecret, GoodSecret},
                      tries \in {0, 3}}
        Second == {PinInfo("CHV2", 2, NoSecret, NoSecret, tries, PinFile2) :
                      tries \in {0, 3}}
    IN  {<<a>> : a \in First1} \cup {<<a, b>> : a \in First1, b \in Second}

InitPins ==
    /\ pins \in PinProfiles
    /\ keys = {}
    /\ tmpl = {}
    /\ fsize = [p \in PinPaths |-> 0]
    /\ acl = [p \in PinPaths |-> [o \in Ops |-> <<>>]]
    /\ \E files \in SUBSET {PinFile1, PinFile2} :
           card = [exists |-> {MF, D1} \cup files,
                   size |-> [p \in PinPaths |-> 0],
                   content |-> [p \in PinPaths |-> <<>>],
                   cur |-> NoPath]
    /\ InitCommon

ReadPins ==
    \E env \in Envs :
        Commit(do_read_pins(St, env), [name |-> "readPins", pins |-> pins])

NextPins == ReadPins

SpecPins == InitPins /\ [][NextPins]_vars

(***************************************************************************)
(* The directory writer: updateDirectory, any number of times and for any  *)
(* directory file, each call failing at any of its first MaxDirFault card  *)
(* operations or at none, on a card that holds the application directory.  *)
(***************************************************************************)
MaxDirFault == 7

DirPaths == {MF, D1, OdfFile, AodfFile, PrkdfFile, PukdfFile}

\* a registered key object, as RegisterKey leaves it
KeyObject(type, id, index) ==
    [type |-> type, label |-> "Key", id |-> id, auth_id |-> NoId, usage |-> 1,
     key_acl |-> NoAcl, path |-> <<type, index>>, modulus_length |-> 0,
     derived |-> FALSE]

\* the size the profile declares for a directory file: room for every entry
DirSize(p) == IF p = OdfFile THEN 3 * Len(DfTypes) ELSE 2 * (MaxKeys + 1)

DirEnvs == [faultAt : 0..MaxDirFault, typed : {GoodSecret}, allocFails : {FALSE}]

InitDir ==
    /\ pins = <<Policy("CHV1", 1, GoodSecret)>>
    /\ keys = {}
    /\ tmpl = {}
    /\ fsize = [p \in DirPaths |-> DirSize(p)]
    /\ acl = [p \in DirPaths |-> [o \in Ops |-> <<>>]]
    /\ \E files \in {{}, {OdfFile}} :
           card = [exists |-> {MF, D1} \cup files,
                   size |-> [p \in DirPaths |-> IF p \in files THEN DirSize(p) ELSE 0],
                   content |-> [p \in DirPaths |->
                                   IF p \in files THEN [i \in 1..DirSize(p) |-> 0] ELSE <<>>],
                   cur |-> NoPath]
    /\ \E prk \in {<<>>, <<KeyObject(SC_PKCS15_TYPE_PRKEY_RSA, DefaultId, 0)>>} :
           df = [PRKDF |-> prk,
                 PUKDF |-> <<KeyObject(SC_PKCS15_TYPE_PUBKEY_RSA, DefaultId, 0)>>,
                 AODF |-> <<PinObject(<<1>>, 1)>>]
    /\ tpl = [priv |-> <<>>, pub |-> <<>>]
    /\ dffile = [PRKDF |-> <<>>, PUKDF |-> <<>>, AODF |-> <<>>]
    /\ \E puk \in {NoPath, PukdfFile} :
           prodf = [PRKDF |-> PrkdfFile, PUKDF |-> puk, AODF |-> AodfFile]
    /\ ops = [store_rsa |-> FALSE, store_dsa |-> FALSE]
    /\ call = [name |-> "none"]
    /\ log = <<>>
    /\ ret = 0

UpdateDirectory ==
    \E t \in {"PRKDF", "PUKDF", "AODF"}, env \in DirEnvs :
        Commit(sc_pkcs15init_update_df(St, env, t),
               [name |-> "updateDirectory", kind |-> t, count0 |-> Len(dffile[t]),
                file |-> prodf[t]])

NextDir == UpdateDirectory

SpecDir == InitDir /\ [][NextDir]_vars

(***************************************************************************)
(* The key generation and storage actions: one run of the tool performs    *)
(* one action (--generate-key or --store-key) on a card bound by           *)
(* sc_pkcs15_bind.                                                         *)
(***************************************************************************)
MaxGenFault == 20   \* the injected I/O error hits one of the first MaxGenFault card operations

KeyTypes == {SC_PKCS15_TYPE_PRKEY_RSA, SC_PKCS15_TYPE_PRKEY_DSA,
             SC_PKCS15_TYPE_PUBKEY_RSA, SC_PKCS15_TYPE_PUBKEY_DSA}

KeyFiles == {KeyPath(<<t, i>>) : t \in KeyTypes, i \in 0..MaxKeys}

GenPaths == DirPaths \cup KeyFiles

\* the size the profile declares for a file
GenSize(p) == IF p \in DirPaths THEN DirSize(p) ELSE Len(i2d_RSAPublicKey)

Pad(bytes, n) == [i \in 1..n |-> IF i <= Len(bytes) THEN bytes[i] ELSE 0]

\* the card a previous run left: the directory files of the non-empty
\* directories, the ODF that references them and the public-key files
BoundCard(d, f) ==
    LET dirs == {OdfFile} \cup {f[t][1] : t \in {t \in DOMAIN f : f[t] # <<>>}}
        pubs == {KeyPath(d["PUKDF"][k].path) : k \in 1..Len(d["PUKDF"])}
        bytes(p) == IF p = OdfFile THEN sc_pkcs15_encode_odf([dffile |-> f])
                    ELSE IF p = AodfFile THEN sc_pkcs15_encode_df([df |-> d], "AODF", 1)
                    ELSE IF p = PrkdfFile THEN sc_pkcs15_encode_df([df |-> d], "PRKDF", 1)
                    ELSE IF p = PukdfFile THEN sc_pkcs15_encode_df([df |-> d], "PUKDF", 1)
                    ELSE i2d_RSAPublicKey
        there == dirs \cup pubs
    IN  [exists |-> {MF, D1} \cup there,
         size |-> [p \in GenPaths |-> IF p \in there THEN GenSize(p) ELSE 0],
         content |-> [p \in GenPaths |-> IF p \in there THEN Pad(bytes(p), GenSize(p))
                                         ELSE <<>>],
         cur |-> NoPath]

\* the directories sc_pkcs15_bind read from the card: after --create-pkcs15
\* alone, with a private key whose public half was not stored, with a key pair
BoundDirectories ==
    LET aodf == <<PinObject(<<1>>, 1)>>
        prk == KeyObject(SC_PKCS15_TYPE_PRKEY_RSA, DefaultId, 0)
        pub == KeyObject(SC_PKCS15_TYPE_PUBKEY_RSA, DefaultId, 0)
    IN  {<<[PRKDF |-> <<>>, PUKDF |-> <<>>, AODF |-> aodf],
           [PRKDF |-> <<>>, PUKDF |-> <<>>, AODF |-> <<AodfFile>>]>>,
         <<[PRKDF |-> <<prk>>, PUKDF |-> <<>>, AODF |-> aodf],
           [PRKDF |-> <<PrkdfFile>>, PUKDF |-> <<>>, AODF |-> <<AodfFile>>]>>,
         <<[PRKDF |-> <<prk>>, PUKDF |-> <<pub>>, AODF |-> aodf],
           [PRKDF |-> <<PrkdfFile>>, PUKDF |-> <<PukdfFile>>, AODF |-> <<AodfFile>>]>>}

\* the card drivers: none of the store operations, RSA only, both
Drivers == {[store_rsa |-> FALSE, store_dsa |-> FALSE],
            [store_rsa |-> TRUE, store_dsa |-> FALSE],
            [store_rsa |-> TRUE, store_dsa |-> TRUE]}

InitGen ==
    /\ pins = <<Policy("CHV1", 1, GoodSecret)>>
    /\ keys = {}
    /\ tmpl = {}
    /\ fsize = [p \in GenPaths |-> GenSize(p)]
    /\ acl = [p \in GenPaths |-> [o \in Ops |-> <<>>]]
    /\ \E b \in BoundDirectories :
           /\ df = b[1]
           /\ dffile = b[2]
           /\ card = BoundCard(b[1], b[2])
    /\ \E pub \in {<<>>, <<Template(NoId, NoId, 1)>>} :
           tpl = [priv |-> <<Template(NoId, <<1>>, 1)>>, pub |-> pub]
    /\ \E puk \in {NoPath, PukdfFile} :
           prodf = [PRKDF |-> PrkdfFile, PUKDF |-> puk, AODF |-> AodfFile]
    /\ ops \in Drivers
    /\ call = [name |-> "none"]
    /\ log = <<>>
    /\ ret = 0

\* the I/O error hits a card operation, or the key generator fails, or the
\* public-key output file cannot be written
GenEnvs ==
    {[faultAt |-> f, typed |-> GoodSecret, allocFails |-> FALSE,
      genFails |-> FALSE, writeFails |-> FALSE] : f \in 0..MaxGenFault}
    \cup {[faultAt |-> 0, typed |-> GoodSecret, allocFails |-> a,
           genFails |-> g, writeFails |-> w] : a, g, w \in BOOLEAN}

\* --generate-key SPEC [--id ID] [--output-file FILE]
KeySpecs == {[alg |-> "rsa", bits |-> TRUE], [alg |-> "dsa", bits |-> TRUE],
             [alg |-> "rsa", bits |-> FALSE], [alg |-> "ec", bits |-> TRUE]}

GenerateRequests ==
    [spec : KeySpecs, id : {NoId, DefaultId, <<77>>}, outkey : BOOLEAN, onboard : BOOLEAN]

\* --store-key FILE [--format FORMAT] [--id ID]
StoreRequests ==
    [keyfile : {EVP_PKEY_RSA, EVP_PKEY_DSA, EVP_PKEY_DH}, pem : BOOLEAN,
     id : {NoId, DefaultId, <<77>>}]

GenerateKey ==
    /\ call.name = "none"
    /\ \E req \in GenerateRequests, env \in GenEnvs :
          \E s1 \in {do_generate_key([St EXCEPT !.keyargs = NoArgs], env, req)} :
              Commit(s1, [name |-> "generateKey", req |-> req, env |-> env,
                          prk0 |-> Len(df["PRKDF"]), puk0 |-> Len(df["PUKDF"]),
                          id |-> s1.keyargs.id])

StorePrivateKey ==
    /\ call.name = "none"
    /\ \E req \in StoreRequests, env \in GenEnvs :
          \E s1 \in {do_store_private_key([St EXCEPT !.keyargs = NoArgs], env, req)} :
              Commit(s1, [name |-> "storePrivateKey", req |-> req, env |-> env,
                          prk0 |-> Len(df["PRKDF"]), puk0 |-> Len(df["PUKDF"]),
                          id |-> s1.keyargs.id])

NextGen == GenerateKey \/ StorePrivateKey

SpecGen == InitGen /\ [][NextGen]_vars

(***************************************************************************)
(* The recursion of sc_pkcs15init_create_file, one activation at a time:   *)
(* the call stack holds the files of the activations that are waiting for  *)
(* their parent to be created, the innermost last.  Paths of odd length    *)
(* and the empty path are among the files.                                 *)
(***************************************************************************)
MaxDepth == 5       \* activations of sc_pkcs15init_create_file on the stack

P1 == <<80>>                \* a path of one byte
P3 == <<80, 21, 75>>        \* a path of three bytes, its parent is P1
AnyPaths == Paths \cup {NoPath, P1, P3}

\* the part of sc_pkcs15init_create_file after do_select_parent returned
FinishCreate(st, env, file) ==
    IF st.r < 0 THEN st
    ELSE Then(sc_pkcs15init_authenticate(st, env, ParentPath(file), "CREATE"),
              LAMBDA s1 : IF s1.r < 0 THEN s1 ELSE sc_create_file(s1, env, file))

\* the engine state in the middle of a call
Running == [St EXCEPT !.log = log, !.n = call.n, !.r = ret]

\* the activation on top of the stack
Top == call.stack[Len(call.stack)]

Returned(st) ==
    Commit(st, [call EXCEPT !.stack = SubSeq(@, 1, Len(@) - 1),
                            !.pc = IF Len(call.stack) = 1 THEN "done" ELSE "returned",
                            !.n = st.n])

InitCreate ==
    /\ pins = <<Policy("CHV1", 1, GoodSecret)>>
    /\ keys = {}
    /\ tmpl \in SUBSET {D1, D2, P1, P3}
    /\ fsize = [p \in AnyPaths |-> DeclaredSize]
    /\ \E a \in FileAcls : acl = [p \in AnyPaths |-> a]
    /\ \E files \in {{}, {MF}, {MF, D1}} :
           card = [exists |-> files,
                   size |-> [p \in AnyPaths |-> IF p \in files THEN DeclaredSize ELSE 0],
                   content |-> [p \in AnyPaths |->
                                   IF p \in files THEN [i \in 1..DeclaredSize |-> 0]
                                   ELSE <<>>],
                   cur |-> NoPath]
    /\ InitCommon

\* the tool calls sc_pkcs15init_create_file(profile, file)
CallCreateFile ==
    /\ IF call.name = "none" THEN TRUE ELSE call.pc = "done"
    /\ \E file \in AnyPaths \ {MF}, env \in Envs :
           Commit([St EXCEPT !.r = 0],
                  [name |-> "create_file", file |-> file, env |-> env,
                   stack |-> <<file>>, pc |-> "called", n |-> 0])

\* an activation runs do_select_parent up to the recursive call, which puts
\* a new activation on the stack, or to its end and then returns
SelectParent ==
    /\ call.name = "create_file" /\ call.pc = "called"
    /\ \E s1 \in {sc_select_file(Running, call.env, ParentPath(Top))} :
          IF /\ s1.r = SC_ERROR_FILE_NOT_FOUND
             /\ Len(ParentPath(Top)) # 2
             /\ sc_profile_find_file_by_path(s1, ParentPath(Top))
          THEN /\ Len(call.stack) < MaxDepth
               /\ Commit(s1, [call EXCEPT !.stack = Append(@, ParentPath(Top)),
                                          !.n = s1.n])
          ELSE Returned(FinishCreate(s1, call.env, Top))

\* the recursive call returned: the parent is selected again if it was
\* created, and the activation runs to its end
ParentCreated ==
    /\ call.name = "create_file" /\ call.pc = "returned"
    /\ \E s1 \in {IF ret = 0 THEN sc_select_file(Running, call.env, ParentPath(Top))
                  ELSE Running} :
          Returned(FinishCreate(s1, call.env, Top))

NextCreate == CallCreateFile \/ SelectParent \/ ParentCreated

SpecCreate == InitCreate /\ [][NextCreate]_vars

(***************************************************************************)
(* Reading the log of the last call.                                       *)
(***************************************************************************)
IsCheck(e) == e.op = "check"
IsVerify(e) == e.op = "verify"
IsPrompt(e) == e.op = "prompt"

\* the ACL entries the call evaluated (handed to do_verify_pin), in order
Evaluated == SelectSeq(log, IsCheck)
Verifications == SelectSeq(log, IsVerify)
Prompts == SelectSeq(log, IsPrompt)

\* position of the first entry of a chain with the method, 0 if there is none
First(chain, method) ==
    LET hits == {i \in 1..Len(chain) : chain[i].method = method}
    IN  IF hits = {} THEN 0 ELSE CHOOSE i \in hits : \A j \in hits : i <= j

\* the chain has a NEVER entry with an entry after it that can be satisfied
NeverThenSatisfiable(chain) ==
    \E i, j \in 1..Len(chain) :
        i < j /\ chain[i].method = SC_AC_NEVER /\ chain[j].method # SC_AC_NEVER

\* the evaluated entries are the first entries of the chain
EvaluatedIsPrefix(chain) ==
    /\ Len(Evaluated) <= Len(chain)
    /\ \A k \in 1..Len(Evaluated) :
           Evaluated[k].tgt = <<chain[k].method, chain[k].key_ref>>

AllVerified == \A k \in 1..Len(Verifications) : Verifications[k].r = 0

\* C1 as stated: for every ACL chain that contains a NEVER entry followed by
\* a satisfiable entry, whatever precedes the NEVER, authenticate fails with
\* SecurityStatusNotSatisfied and evaluates no entry after the NEVER.
C1_NeverAlwaysFails ==
    (call.name = "authenticate" /\ NeverThenSatisfiable(call.chain))
        => /\ ret = SC_ERROR_SECURITY_STATUS_NOT_SATISFIED
           /\ Len(Evaluated) < First(call.chain, SC_AC_NEVER)

\* C1 amended: for every ACL chain that contains a NEVER entry followed by a
\* satisfiable entry, authenticate evaluates only entries before the first
\* NEVER, and it fails with SecurityStatusNotSatisfied when no NONE entry
\* precedes that NEVER and every verification issued for the entries before
\* it succeeded; with a NONE before the NEVER it returns success at the NONE,
\* and with a failed verification it returns that verification's error.
C1_NeverFailsWhenReached ==
    (call.name = "authenticate" /\ NeverThenSatisfiable(call.chain))
        => LET never == First(call.chain, SC_AC_NEVER)
               none == First(call.chain, SC_AC_NONE)
           IN  /\ EvaluatedIsPrefix(call.chain)
               /\ Len(Evaluated) < never
               /\ (AllVerified /\ (none = 0 \/ none > never))
                     => ret = SC_ERROR_SECURITY_STATUS_NOT_SATISFIED
               /\ (AllVerified /\ none # 0 /\ none < never) => ret = 0
               /\ ~AllVerified => ret = Verifications[Len(Verifications)].r

\* C1 witness: a verified PIN entry, then NEVER, then a satisfiable entry;
\* the call failed at the NEVER after evaluating the PIN entry.
C1_Witness ==
    /\ call.name = "authenticate"
    /\ call.chain = <<Entry(SC_AC_CHV, 1), Entry(SC_AC_NEVER, 0), Entry(SC_AC_NONE, 0)>>
    /\ Len(Evaluated) = 1
    /\ AllVerified
    /\ ret = SC_ERROR_SECURITY_STATUS_NOT_SATISFIED

\* C2: for every ACL chain whose first entry is NONE, whatever follows it,
\* authenticate returns success, prompts for no secret, issues no
\* verification to the card and evaluates no entry.
C2_NoneFirstPasses ==
    (call.name = "authenticate" /\ Len(call.chain) > 0
        /\ call.chain[1].method = SC_AC_NONE)
        => /\ ret = 0
           /\ Len(Prompts) = 0
           /\ Len(Verifications) = 0
           /\ Len(Evaluated) = 0
           /\ pins = call.pins

\* C2 witness: NONE, then NEVER and a PIN entry; the call returned success.
C2_Witness ==
    /\ call.name = "authenticate"
    /\ call.chain = <<Entry(SC_AC_NONE, 0), Entry(SC_AC_NEVER, 0), Entry(SC_AC_CHV, 1)>>
    /\ ret = 0
    /\ log = <<Ev("auth", EF, "UPDATE", 0)>>

\* C3 as stated: for every ACL chain with neither NEVER nor NONE,
\* authenticate returns success only if for every PIN-verify entry a
\* verification for that entry's key reference was issued to the card and
\* succeeded.
C3_EveryPinEntryVerified ==
    (call.name = "authenticate" /\ ret = 0
        /\ \A i \in 1..Len(call.chain) :
               call.chain[i].method \notin {SC_AC_NEVER, SC_AC_NONE})
        => \A i \in 1..Len(call.chain) :
               call.chain[i].method = SC_AC_CHV
                   => \E k \in 1..Len(Verifications) :
                          /\ Verifications[k].tgt = <<SC_AC_CHV, call.chain[i].key_ref>>
                          /\ Verifications[k].r = 0

(***************************************************************************)
(* The file system navigator's claims.                                     *)
(***************************************************************************)
\* positions in the log of the events of one kind
At(op) == {i \in 1..Len(log) : log[i].op = op}

\* the k-th smallest element of a set of positions
RECURSIVE Nth(_, _)
Nth(S, k) ==
    LET m == CHOOSE i \in S : \A j \in S : i <= j
    IN  IF k = 1 THEN m ELSE Nth(S \ {m}, k - 1)

\* the directories above a file and the file itself, from the top down,
\* without the master file
RECURSIVE Lineage(_)
Lineage(file) ==
    IF Len(file) <= 2 THEN <<>> ELSE Append(Lineage(ParentPath(file)), file)

\* the call ended with the result of its last card operation or authentication
EndedByLast == Len(log) > 0 /\ ret = log[Len(log)].r

\* the create at log position i is preceded, since the create before it, by
\* exactly one authentication, a successful one of the CREATE ACL of the
\* directory the file is created in
OneAuthBefore(i) ==
    LET before == {j \in At("create") : j < i}
        from == IF before = {} THEN 0 ELSE CHOOSE j \in before : \A k \in before : k <= j
        auths == {j \in At("auth") : from < j /\ j < i}
    IN  /\ Cardinality(auths) = 1
        /\ \A j \in auths :
               /\ j = i - 1
               /\ log[j].tgt = ParentPath(log[i].tgt)
               /\ log[j].arg = "CREATE"
               /\ log[j].r >= 0

\* C4: createFile on a file whose whole parent chain below the master file
\* is absent from the card issues its native creates from the top down, the
\* k-th create for the k-th directory of the file's lineage and the leaf
\* last, each after the one before it succeeded and each preceded by exactly
\* one authentication of the CREATE ACL of the directory the file is created
\* in; when createFile succeeds every missing ancestor and the leaf were
\* created, and when it fails it returns the error of its last operation.
C4_CreatesAncestorsTopDown ==
    (call.name = "createFile" /\ call.pre = {MF})
        => LET line == Lineage(call.file)
               n == Cardinality(At("create"))
           IN  /\ n <= Len(line)
               /\ \A k \in 1..n :
                      LET i == Nth(At("create"), k)
                      IN  /\ log[i].tgt = line[k]
                          /\ OneAuthBefore(i)
                          /\ k < n => log[i].r = 0
                          /\ \A a \in 1..(k - 1) : line[a] \in card.exists
               /\ ret = 0 => /\ n = Len(line)
                             /\ \A k \in 1..Len(line) : line[k] \in card.exists
               /\ ret # 0 => ret < 0 /\ EndedByLast

\* C4 witness: createFile of the leaf with both directories above it absent
\* succeeded after three creates.
C4_Witness ==
    /\ call.name = "createFile"
    /\ call.file = EF
    /\ call.pre = {MF}
    /\ ret = 0
    /\ Cardinality(At("create")) = 3
    /\ card.exists = Paths

\* C5: in every execution of updateFile the binary write is issued at most
\* once, as the last operation, at offset zero with the full payload, to the
\* target file, right after a successful authentication of the target's
\* UPDATE ACL that follows a successful select of the target; if no write is
\* issued updateFile returns the error of the select, create or
\* authentication that failed.
C5_WriteOnceAfterSelectAndAuth ==
    call.name = "updateFile"
        => /\ Cardinality(At("write")) <= 1
           /\ \A w \in At("write") :
                  /\ w = Len(log)
                  /\ ret = log[w].r
                  /\ log[w].tgt = call.file
                  /\ log[w].arg = <<0, call.data>>
                  /\ w > 2
                  /\ log[w - 1] = Ev("auth", call.file, "UPDATE", 0)
                  /\ \E s \in At("select") :
                         /\ s < w
                         /\ log[s] = Ev("select", call.file, 0, 0)
                         /\ \A j \in At("select") \cup At("create") : j <= s
           /\ At("write") = {} =>
                  /\ ret < 0
                  /\ EndedByLast
                  /\ log[Len(log)].op \in {"select", "create", "auth"}

\* C5 witness: updateFile created the missing file, selected it again,
\* authenticated with a verified PIN and wrote.
C5_Witness ==
    /\ call.name = "updateFile"
    /\ call.file \notin call.pre
    /\ At("create") # {}
    /\ At("verify") # {}
    /\ At("write") # {}
    /\ ret = Len(call.data)

\* C6: when updateFile is called twice in succession with different payloads
\* on the same file, which does not exist before the first call, and both
\* calls succeed, then the file exists, its content from offset zero is the
\* second payload and the second call issued no create (and selected no
\* other file).
C6_SecondUpdateOverwrites ==
    (call.name = "updateFile" /\ call.again /\ ret >= 0)
        => /\ call.file \in card.exists
           /\ SubSeq(card.content[call.file], 1, Len(call.data)) = call.data
           /\ At("create") = {}
           /\ \A s \in At("select") : log[s].tgt = call.file

\* C6 witness: the second of two successful updateFile calls on a file that
\* did not exist before the first.
C6_Witness ==
    /\ call.name = "updateFile"
    /\ call.again
    /\ ret = Len(call.data)
    /\ call.file \in call.pre

\* C7: when updateFile is called on a file that does not exist with a
\* payload longer than the file's declared size, the declared size becomes
\* the payload length, the file is created with that size and never with the
\* smaller declared size.
C7_CreatedAtPayloadSize ==
    (call.name = "updateFile" /\ call.file \notin call.pre /\ MF \in call.pre
        /\ Len(call.data) > call.size0)
        => /\ \A c \in At("create") :
                  log[c].tgt = call.file => log[c].arg = Max(call.size0, Len(call.data))
           /\ call.file \in card.exists =>
                  /\ card.size[call.file] >= Len(call.data)
                  /\ card.size[call.file] = Max(call.size0, Len(call.data))
           /\ fsize[call.file] = Max(call.size0, Len(call.data))

\* C7 witness: a payload of three bytes for a missing file declared with two;
\* the file was created and written.
C7_Witness ==
    /\ call.name = "updateFile"
    /\ call.file \notin call.pre
    /\ Len(call.data) > call.size0
    /\ \E c \in At("create") : log[c].tgt = call.file /\ log[c].r = 0
    /\ ret = Len(call.data)
    /\ card.size[call.file] = Len(call.data)

\* C8 as stated: createFile and updateFile never return FileNotFound to
\* their caller (here even only on a card that has its master file).
C8_FileNotFoundNeverEscapes ==
    (call.name \in {"createFile", "updateFile"} /\ MF \in call.pre)
        => ret # SC_ERROR_FILE_NOT_FOUND

(***************************************************************************)
(* The key object manager's claims.                                        *)
(***************************************************************************)
\* the objects registered under a type, in the order of their registration
ObjectsOf(type) == LET Test(o) == o.type = type IN SelectSeq(df[DfOf(type)], Test)

\* the default identifier of the first template of a class
TemplateDefault(type) ==
    LET t == IF TypeClass(type) = "PRKEY" THEN tpl.priv[1] ELSE tpl.pub[1]
    IN  IF Len(t.id) = 0 THEN DefaultId ELSE t.id

\* two identifiers that are equal except for their last byte
SameButLast(a, b) ==
    /\ Len(a) = Len(b)
    /\ \A i \in 1..(Len(a) - 1) : a[i] = b[i]

\* C9: when all the objects registered under a type come from requests with
\* no explicit identifier, the k-th of them (k = 0, 1, 2, ...) has the
\* template's default identifier with its last byte increased by k (on a
\* byte), and the identifiers are pairwise distinct and equal except for
\* their last byte.
C9_SequentialIdentifiers ==
    \A type \in KeyTypes :
        LET objs == ObjectsOf(type)
        IN  (\A k \in 1..Len(objs) : objs[k].derived)
                => /\ \A k \in 1..Len(objs) :
                          LET d == TemplateDefault(type)
                          IN  /\ SameButLast(objs[k].id, d)
                              /\ objs[k].id[Len(d)] = (d[Len(d)] + (k - 1)) % 256
                   /\ \A j, k \in 1..Len(objs) :
                          j # k => /\ objs[j].id # objs[k].id
                                   /\ SameButLast(objs[j].id, objs[k].id)

\* C9 witness: three private RSA keys registered by requests with no
\* explicit identifier.
C9_Witness ==
    LET objs == ObjectsOf(SC_PKCS15_TYPE_PRKEY_RSA)
    IN  /\ Len(objs) = 3
        /\ \A k \in 1..3 : objs[k].derived
        /\ call.name = "setupKey" /\ ret = 0

\* C10: when the private-key template names a PIN that exists with
\* reference R, a successful setupKey(private) with no explicit identifier
\* that is the first allocation of its type registers a key object whose
\* ACL is the single entry (PIN-verify, R) and whose identifier is the
\* template's default identifier unchanged; that identifier is written back
\* into the request.
C10_FirstPrivateKey ==
    (/\ call.name = "setupKey" /\ call.is_private /\ ret = 0
     /\ call.args.id = NoId /\ call.index = 0)
        => \A p \in 1..Len(df["AODF"]) :
               df["AODF"][p].auth_id = tpl.priv[1].auth_id
                   => LET obj == df["PRKDF"][Len(df["PRKDF"])]
                      IN  /\ obj.type = call.type
                          /\ obj.key_acl = <<Entry(SC_AC_CHV, df["AODF"][p].reference)>>
                          /\ obj.id = TemplateDefault(call.type)
                          /\ call.id = obj.id

\* C10 witness: the template names the PIN with reference 3 (the second PIN
\* object); the first private RSA key was set up.
C10_Witness ==
    /\ call.name = "setupKey" /\ call.is_private /\ ret = 0
    /\ call.args.id = NoId /\ call.index = 0
    /\ tpl.priv[1].auth_id = <<1>>
    /\ Len(df["AODF"]) = 2
    /\ Len(df["PRKDF"]) >= 1
    /\ df["PRKDF"][Len(df["PRKDF"])].key_acl = <<Entry(SC_AC_CHV, 3)>>

\* the private-key template of the profile names a PIN object of the AODF
PinResolvable ==
    \E p \in 1..Len(df["AODF"]) : df["AODF"][p].auth_id = tpl.priv[1].auth_id

\* the ACL is one PIN-verify entry with the reference of a PIN object
ReferencesPin(key_acl) ==
    \E p \in 1..Len(df["AODF"]) : key_acl = <<Entry(SC_AC_CHV, df["AODF"][p].reference)>>

\* C11 as stated: setupKey(private) for a supported algorithm and a
\* template with a usage fails with ObjectNotFound and registers nothing
\* whenever no PIN object matches the template's controlling
\* authentication identifier, and every private key
\* object registered in the PrKDF carries an ACL that references the
\* reference number of a PIN object.
C11_PrivateKeysCarryPinAcl ==
    /\ (call.name = "setupKey" /\ call.is_private /\ call.type # NoType
            /\ tpl.priv[1].usage # 0 /\ ~PinResolvable)
          => /\ ret = SC_ERROR_OBJECT_NOT_FOUND
             /\ Len(ObjectsOf(call.type)) = call.index
    /\ \A k \in 1..Len(df["PRKDF"]) : ReferencesPin(df["PRKDF"][k].key_acl)

\* C12 as stated: for RSA and DSA and both key classes, setupKey with a
\* request identifier equal to the identifier of an object already
\* registered under that type fails with NotSupported, registers no new
\* object and allocates no storage.
C12_DuplicateIdentifierRejected ==
    (/\ call.name = "setupKey" /\ call.type # NoType
     /\ \E k \in 1..call.index : ObjectsOf(call.type)[k].id = call.args.id)
        => /\ ret = SC_ERROR_NOT_SUPPORTED
           /\ Len(ObjectsOf(call.type)) = call.index
           /\ At("alloc") = {}

(***************************************************************************)
(* The order of the secret lookup.                                         *)
(***************************************************************************)
\* the key the profile binds to (type, ref), NoSecret if it binds none
BoundKey(type, ref) ==
    IF \E k \in keys : k.type = type /\ k.ref = ref
    THEN (CHOOSE k \in keys : k.type = type /\ k.ref = ref).key
    ELSE NoSecret

\* the position in the profile of the first PIN policy with the reference
PolicyOf(ref) ==
    LET hits == {i \in 1..Len(pins) : pins[i].reference = ref}
    IN  IF hits = {} THEN 0 ELSE CHOOSE i \in hits : \A j \in hits : i <= j

\* the events the call logged for the entry evaluated at log position i
EventsOf(i) ==
    LET later == {j \in At("check") \cup At("auth") : j > i}
        end == CHOOSE j \in later : \A k \in later : j <= k
    IN  SubSeq(log, i + 1, end - 1)

\* C20: for every ACL entry (M, R) a call of authenticate evaluates, the
\* secret presented is the key bound to (M, R) if there is one, else the key
\* bound to (M, any reference) if there is one, else, for PIN-verify only,
\* the PIN of the first PIN policy whose reference is R, prompted for only
\* when this source is the one used; with none of the three nothing is
\* presented.  Whenever an earlier source exists, the one verification of
\* the entry presents it and no prompt is issued.
C20_SecretLookupOrder ==
    call.name = "authenticate" =>
        \A i \in At("check") :
            LET M == log[i].tgt[1]
                R == log[i].tgt[2]
                evs == EventsOf(i)
                p == PolicyOf(R)
                Presents(secret) ==
                    /\ Len(evs) >= 1
                    /\ evs[Len(evs)].op = "verify"
                    /\ evs[Len(evs)].tgt = <<M, R>>
                    /\ evs[Len(evs)].arg = secret
            IN  IF BoundKey(M, R) # NoSecret
                    THEN Len(evs) = 1 /\ Presents(BoundKey(M, R))
                ELSE IF BoundKey(M, AnyRef) # NoSecret
                    THEN Len(evs) = 1 /\ Presents(BoundKey(M, AnyRef))
                ELSE IF M = SC_AC_CHV /\ p # 0
                    THEN /\ Presents(pins[p].secret[1])
                         /\ Len(evs) <= 2
                         /\ Len(evs) = 2 =>
                                /\ evs[1].op = "prompt"
                                /\ evs[1].tgt = <<pins[p].ident, 1>>
                                /\ call.pins[p].secret[1] = NoSecret
                ELSE evs = <<>>

\* C20 witness: an entry for which all three sources exist, with different
\* secrets, and the PIN slot still unset: the exact key was presented.
C20_Witness ==
    /\ call.name = "authenticate"
    /\ call.chain = <<Entry(SC_AC_CHV, 1)>>
    /\ BoundKey(SC_AC_CHV, 1) = BadSecret
    /\ BoundKey(SC_AC_CHV, AnyRef) = GoodSecret
    /\ call.pins[1].secret[1] = NoSecret
    /\ log = <<Ev("check", <<SC_AC_CHV, 1>>, 0, 0),
               Ev("verify", <<SC_AC_CHV, 1>>, BadSecret, SC_ERROR_PIN_CODE_INCORRECT),
               Ev("auth", EF, "UPDATE", SC_ERROR_PIN_CODE_INCORRECT)>>

(***************************************************************************)
(* PIN collection's claims.                                                *)
(***************************************************************************)
\* the policies do_read_pins collects for: the first named CHV1, the first
\* named CHV2
Collected ==
    {i \in 1..Len(pins) :
        /\ pins[i].ident \in {"CHV1", "CHV2"}
        /\ \A j \in 1..(i - 1) : pins[j].ident # pins[i].ident}

\* C18: for every PIN policy whose unblock retry count is zero, PIN
\* collection issues no prompt for the PUK of the policy and leaves its PUK
\* slot as it was (unset if it was unset), whether the PIN file exists on
\* the card or not; collection returns success with the PIN slot filled.
C18_NoPukWithoutUnblockRetries ==
    call.name = "readPins" =>
        \A i \in Collected :
            pins[i].attempt[2] = 0
                => /\ \A k \in At("prompt") : log[k].tgt # <<pins[i].ident, 2>>
                   /\ pins[i].secret[2] = call.pins[i].secret[2]
                   /\ pins[i].secret[1] # NoSecret
                   /\ ret = 0

\* C18 witness: CHV1 has no unblock retries, neither secret was given and
\* its PIN file is not on the card; the PIN was prompted for, the PUK is
\* still unset.
C18_Witness ==
    /\ call.name = "readPins"
    /\ pins[1].attempt[2] = 0
    /\ call.pins[1].secret = <<NoSecret, NoSecret>>
    /\ PinFile1 \notin card.exists
    /\ \E k \in At("prompt") : log[k].tgt = <<"CHV1", 1>>
    /\ pins[1].secret[1] # NoSecret
    /\ pins[1].secret[2] = NoSecret

(***************************************************************************)
(* The directory writer's claims.                                          *)
(***************************************************************************)
\* the encoded ODF has an entry for the file as a backing file of the
\* directory file
OdfReferences(bytes, t, file) ==
    \E i \in 1..Len(bytes) :
        /\ i % 3 = 1
        /\ i + 2 <= Len(bytes)
        /\ SubSeq(bytes, i, i + 2) = <<OdfTag(t)>> \o FileId(file)

\* the positions in the log of the operations on a file
Touching(file) == {i \in 1..Len(log) : log[i].op # "verify" /\ log[i].op # "check"
                                       /\ log[i].op # "prompt" /\ log[i].tgt = file}

\* the successful writes of the ODF in the log
OdfWrites == {i \in At("write") : log[i].tgt = OdfFile /\ log[i].r >= 0}

\* C19: when updateDirectory is called on a directory file with zero
\* backing segments and the profile declares a file for it, that file is
\* bound as its first segment and every card operation on the segment comes
\* after a successful write of the ODF, re-encoded with an entry for the
\* segment; if the ODF refresh fails the call returns its error and touches
\* no segment.  If the profile declares no file the call fails with
\* NotSupported, binds nothing and issues no card operation.
C19_OdfRefreshedBeforeFirstSegment ==
    (call.name = "updateDirectory" /\ call.count0 = 0)
        => IF call.file = NoPath
           THEN /\ ret = SC_ERROR_NOT_SUPPORTED
                /\ dffile[call.kind] = <<>>
                /\ log = <<>>
           ELSE /\ dffile[call.kind] = <<call.file>>
                /\ \A i \in Touching(call.file) :
                       \E o \in OdfWrites :
                           /\ o < i
                           /\ log[o].arg[1] = 0
                           /\ OdfReferences(log[o].arg[2], call.kind, call.file)
                /\ OdfWrites = {} => /\ ret < 0
                                     /\ Touching(call.file) = {}
                                     /\ EndedByLast

\* C19 witness: the first updateDirectory of the PrKDF on a card without an
\* ODF created and wrote the ODF, then created and wrote the PrKDF.
C19_Witness ==
    /\ call.name = "updateDirectory" /\ call.count0 = 0 /\ call.kind = "PRKDF"
    /\ ret >= 0
    /\ OdfWrites # {}
    /\ \E c \in At("create") : log[c].tgt = OdfFile
    /\ \E w \in At("write") : log[w].tgt = PrkdfFile /\ log[w].r >= 0

\* a directory file with objects whose backing file was written to the card
Written(t) ==
    /\ Len(df[t]) > 0
    /\ \E j \in 1..Len(dffile[t]) :
           /\ dffile[t][j] \in card.exists
           /\ Len(card.content[dffile[t][j]]) > 0
           /\ card.content[dffile[t][j]][1] = 48

\* C17 as stated: after any sequence of updateDirectory calls, every
\* non-empty directory file that has been written to the card is referenced
\* by the ODF on the card.
C17_OdfReferencesWrittenDirectories ==
    \A k \in 1..Len(DfTypes) :
        Written(DfTypes[k])
            => /\ OdfFile \in card.exists
               /\ \A j \in 1..Len(dffile[DfTypes[k]]) :
                      OdfReferences(card.content[OdfFile], DfTypes[k], dffile[DfTypes[k]][j])

(***************************************************************************)
(* The key generation and storage orchestrator's claims.                   *)
(***************************************************************************)
KeyAction == call.name \in {"generateKey", "storePrivateKey"}

\* the objects the action registered
NewPrivate == Len(df["PRKDF"]) = call.prk0 + 1
NewPublic == Len(df["PUKDF"]) = call.puk0 + 1
PrivateObject == df["PRKDF"][Len(df["PRKDF"])]
PublicObject == df["PUKDF"][Len(df["PUKDF"])]

\* C13: setupKey writes the resolved identifier back into the request, so
\* the public key object a generate-key or store-private-key action registers
\* in the PuKDF has the identifier of the private key object the same action
\* registered in the PrKDF, and a successful store-private-key action has
\* registered both.
C13_KeyPairSharesIdentifier ==
    KeyAction =>
        /\ NewPrivate => call.id = PrivateObject.id
        /\ NewPublic => NewPrivate /\ PublicObject.id = PrivateObject.id
        /\ (ret = 0 /\ call.name = "storePrivateKey") => NewPrivate /\ NewPublic
        /\ (ret = 0 /\ call.name = "generateKey") => NewPrivate

\* a key generated without --id on a card that holds one private key and no
\* public key: the public object gets the private object's derived identifier
C13_Witness ==
    /\ call.name = "generateKey" /\ ret = 0
    /\ call.req.id = NoId /\ ~call.req.outkey
    /\ call.prk0 = 1 /\ call.puk0 = 0
    /\ NewPrivate /\ NewPublic
    /\ PrivateObject.id = Perturb(DefaultId, 1)
    /\ PublicObject.id = Perturb(DefaultId, 1)

\* the positions of the events of one kind in the log of the call
Positions(op) == {i \in 1..Len(log) : log[i].op = op}
Attempts == Positions("generate")
DowngradeNotices == {i \in Positions("notice") : log[i].tgt = "downgrade"}
FirstOf(S) == CHOOSE i \in S : \A j \in S : i <= j
LastOf(S) == CHOOSE i \in S : \A j \in S : j <= i

\* a generate-key call whose key specification was accepted
Generating ==
    /\ call.name = "generateKey"
    /\ call.req.spec.alg \in {"rsa", "dsa"} /\ call.req.spec.bits

\* the steps after the generation loop did not fail
PublicHalfDone ==
    /\ \E i \in Positions("public") : log[i].r >= 0
    /\ call.req.outkey => \E i \in Positions("output") : log[i].r >= 0

\* C14: a generate request that asks for on-card generation makes exactly two
\* generation attempts: the on-card one, which reports NotSupported, then one
\* downgrade notice, then the software one; the action succeeds if the
\* software attempt and the steps after it succeed.  A request that does not
\* ask for it makes one attempt and no notice.  No call makes more than two
\* attempts, whatever the software attempt returns.
C14_SingleDowngrade ==
    Generating =>
        /\ Cardinality(Attempts) \in {1, 2}
        /\ call.req.onboard =>
              /\ Cardinality(Attempts) = 2
              /\ log[FirstOf(Attempts)].tgt = "onboard"
              /\ log[FirstOf(Attempts)].r = SC_ERROR_NOT_SUPPORTED
              /\ DowngradeNotices = {FirstOf(Attempts) + 1}
              /\ log[LastOf(Attempts)].tgt = "software"
              /\ (log[LastOf(Attempts)].r = 0 /\ PublicHalfDone) => ret = 0
              /\ log[LastOf(Attempts)].r # 0 => ret = -1
        /\ ~call.req.onboard =>
              /\ Cardinality(Attempts) = 1
              /\ DowngradeNotices = {}

\* on-card generation was asked for, and the key was generated in software
\* and stored
C14_Witness ==
    /\ Generating /\ call.req.onboard /\ ret = 0
    /\ Cardinality(Attempts) = 2
    /\ Cardinality(DowngradeNotices) = 1
    /\ log[LastOf(Attempts)].r = 0
    /\ PublicHalfDone

\* the error the action reported
Reported(r) == \E i \in Positions("error") : log[i].arg = r

\* C15: generate-key reports success only if the private half was stored and
\* the public half was registered and stored; an error of the generation
\* (other than the on-card NotSupported that is downgraded) or of the
\* public-key storage makes the action fail with that error, with or without
\* a public-key output file.
C15_GenerateFailsOnAnyError ==
    Generating =>
        /\ ret = 0 =>
              /\ NewPrivate /\ log[LastOf(Attempts)].r = 0
              /\ NewPublic /\ \E i \in Positions("public") : log[i].r >= 0
        /\ log[LastOf(Attempts)].r # 0 =>
              ret # 0 /\ Reported(log[LastOf(Attempts)].r)
        /\ \A i \in Positions("public") :
              log[i].r < 0 => ret # 0 /\ Reported(log[i].r)

\* the capability interface has no native-store operation for the key type
NoNativeStore(pkey) ==
    \/ pkey = EVP_PKEY_RSA /\ ~ops.store_rsa
    \/ pkey = EVP_PKEY_DSA /\ ~ops.store_dsa
    \/ pkey \notin {EVP_PKEY_RSA, EVP_PKEY_DSA}

\* the key sc_pkcs15init_store_private_key was called with
StoredKey ==
    IF call.name = "storePrivateKey" THEN call.req.keyfile
    ELSE GeneratedKey(ParsedAlgorithm(call.req.spec))

\* the call reached sc_pkcs15init_store_private_key
StoringPrivate ==
    \/ call.name = "storePrivateKey" /\ call.req.pem
    \/ Generating /\ ~call.env.genFails

FilledByCall(i) ==
    /\ i <= Len(call.pins)
    /\ call.pins[i].secret[1] = NoSecret
    /\ pins[i].secret[1] # NoSecret

\* the card accepted the secret for the PIN reference during the call
AcceptedByCard(ref, secret) ==
    \E k \in 1..Len(log) :
        /\ log[k].op = "verify" /\ log[k].r = 0
        /\ log[k].tgt = <<SC_AC_CHV, ref>> /\ log[k].arg = secret

\* C21: a PIN prompted for during authenticate is in the policy's PIN slot
\* after the call only if the card verified it successfully during the call;
\* after a failed verification the slot is still unset.
C21_PromptedPinCachedAfterVerification ==
    call.name = "authenticate" =>
        \A i \in 1..Len(pins) :
            FilledByCall(i) => AcceptedByCard(pins[i].reference, pins[i].secret[1])

\* the k-th evaluated entry is a non-PIN method for which the profile binds
\* neither the exact reference nor the wildcard
NoSecretNonPin(k) ==
    /\ k \in 1..Len(Evaluated)
    /\ Evaluated[k].tgt[1] \in {SC_AC_PRO, SC_AC_AUT}
    /\ BoundKey(Evaluated[k].tgt[1], Evaluated[k].tgt[2]) = NoSecret
    /\ BoundKey(Evaluated[k].tgt[1], AnyRef) = NoSecret

\* C22: a non-PIN entry without an exact or wildcard key is passed: no
\* verification and no prompt is issued for it, and the walk goes on with the
\* entry after it (the next entry is evaluated, a NEVER fails the call, a
\* NONE or the end of the chain ends it with success).
C22_MissingNonPinSecretPasses ==
    call.name = "authenticate" =>
        /\ EvaluatedIsPrefix(call.chain)
        /\ \A k \in 1..Len(Evaluated) :
              NoSecretNonPin(k) =>
                  /\ EventsOf(Nth(At("check"), k)) = <<>>
                  /\ IF k = Len(call.chain) THEN ret = 0
                     ELSE IF call.chain[k + 1].method = SC_AC_NEVER
                          THEN ret = SC_ERROR_SECURITY_STATUS_NOT_SATISFIED
                     ELSE IF call.chain[k + 1].method = SC_AC_NONE THEN ret = 0
                     ELSE Len(Evaluated) >= k + 1

\* a chain whose first entry is an authentication-key entry without a key
\* and whose second entry is a PIN entry that was then verified
C22_Witness ==
    /\ call.name = "authenticate"
    /\ Len(call.chain) >= 2
    /\ call.chain[1] = Entry(SC_AC_AUT, 1)
    /\ call.chain[2] = Entry(SC_AC_CHV, 1)
    /\ NoSecretNonPin(1)
    /\ Len(Evaluated) >= 2
    /\ Len(Verifications) = 1 /\ Verifications[1].tgt = <<SC_AC_CHV, 1>>
    /\ ret = 0

\* C23: when the card rejects a verification with error e, authenticate
\* returns e, and the rejected verification is the last thing the call did:
\* no entry after the failing one is evaluated, verified or prompted for.
C23_VerificationErrorPropagates ==
    call.name = "authenticate" =>
        \A i \in At("verify") :
            log[i].r # 0 =>
                /\ ret = log[i].r
                /\ i = Len(log) - 1
                /\ log[Len(log)].op = "auth"

\* the first of several entries is rejected with PIN-code-incorrect
C23_Witness ==
    /\ call.name = "authenticate"
    /\ Len(call.chain) >= 2
    /\ call.chain[2].method \in {SC_AC_CHV, SC_AC_PRO}
    /\ Len(Verifications) = 1
    /\ Verifications[1].r = SC_ERROR_PIN_CODE_INCORRECT
    /\ Len(Evaluated) = 1
    /\ ret = SC_ERROR_PIN_CODE_INCORRECT

(***************************************************************************)
(* The key object manager's claims on validation and uniqueness.           *)
(***************************************************************************)
\* the templates of the class of the call, and the one the call selected
TemplatesOfCall == IF call.is_private THEN tpl.priv ELSE tpl.pub
SelectedTemplate == FindTemplate(TemplatesOfCall, call.args.template_name)

\* the call got as far as copying a template: the type is supported and
\* find_key found no object with the request's identifier
TemplateCopied ==
    /\ call.name = "setupKey" /\ call.type # NoType
    /\ ~(/\ call.type \in {SC_PKCS15_TYPE_PRKEY_RSA, SC_PKCS15_TYPE_PUBKEY_RSA}
         /\ \E k \in 1..call.index : ObjectsOf(call.type)[k].id = call.args.id)
    /\ SelectedTemplate # 0

\* the PIN lookup of a private key, which comes before the validation,
\* did not fail
PinStepPassed ==
    \/ ~call.is_private
    \/ Len(tpl.priv[SelectedTemplate].auth_id) = 0
    \/ \E p \in 1..Len(df["AODF"]) :
           df["AODF"][p].auth_id = tpl.priv[SelectedTemplate].auth_id

C25_IdentifiersUniquePerDirectory ==
    \A d \in {"PRKDF", "PUKDF"} :
        \A j, k \in 1..Len(df[d]) :
            j # k => df[d][j].id # df[d][k].id

\* sc_pkcs15init_store_private_key returned an error: the public half is
\* stored only after the private half succeeded
PrivateStoreFailed == StoringPrivate /\ Positions("public") = {}
\* sc_pkcs15init_store_public_key returned an error
PublicStoreFailed == \E i \in Positions("public") : log[i].r < 0

\* C26: whenever storePrivateKey or storePublicKey returns an error (native
\* store unsupported or failed, public-key algorithm unsupported, file write
\* failed), the in-memory PrKDF/PuKDF holds no object for the key whose
\* storage failed.
C26_NoObjectForFailedStorage ==
    KeyAction =>
        /\ PrivateStoreFailed => ~NewPrivate
        /\ PublicStoreFailed => ~NewPublic

\* the PKCS#15 type tag that names the algorithm of a native-store operation
TagOf(alg) == IF alg = "rsa" THEN SC_PKCS15_TYPE_PRKEY_RSA ELSE SC_PKCS15_TYPE_PRKEY_DSA

\* C27: for every private key stored through the store-private-key or the
\* generate-key action, the type tag under which the key object is registered
\* names the algorithm of the native-store operation invoked for the key
\* material, also when the key comes from a key file.
C27_TypeTagNamesStoredAlgorithm ==
    KeyAction =>
        \A i \in Positions("store") :
            NewPrivate /\ PrivateObject.type = TagOf(log[i].tgt)

\* the initial select of the updateFile call failed, and not with FileNotFound
InitialSelectFailed ==
    /\ call.name = "updateFile"
    /\ Len(log) >= 1 /\ log[1].op = "select" /\ log[1].tgt = call.file
    /\ log[1].r < 0 /\ log[1].r # SC_ERROR_FILE_NOT_FOUND

\* C29: when the initial select in updateFile fails with an error other than
\* FileNotFound, updateFile returns that error, issues no create,
\* authenticate or write, and the descriptor's declared size keeps its value.
C29_SelectErrorLeavesAllUnchanged ==
    InitialSelectFailed =>
        /\ ret = log[1].r
        /\ Len(log) = 1
        /\ fsize[call.file] = call.size0

\* C28: createFile terminates for every file path and every profile: every
\* recursive call made to create a missing parent targets a strictly shorter
\* path than the activation that makes it, so the recursion depth is bounded
\* by the path length, also for paths of less than two bytes.
C28_RecursionTargetsShorterPath ==
    call.name = "create_file" =>
        /\ \A i \in 1..(Len(call.stack) - 1) :
               Len(call.stack[i + 1]) < Len(call.stack[i])
        /\ Len(call.stack) <= Len(call.file) + 1

====
